---------------------------- MODULE Spec2Model ----------------------------
(***************************************************************************)
(* A model of the ray tracer kernel of trtc-rust: the f64 arithmetic the   *)
(* kernel relies on, tuples, 4x4 matrices and their cofactor inverse, rays,*)
(* the sphere and plane primitives, Intersections and the hit rule, the    *)
(* Phong lighting, the World and the Camera's render loop into a Canvas.   *)
(*                                                                         *)
(* NUMBERS.  An f64 is modelled as a sign-magnitude rational <<s, n, d>>:  *)
(* s is the IEEE sign bit (1 = negative), n/d the magnitude in lowest      *)
(* terms.  Both zeros exist (<<0,0,1>> is +0.0 and <<1,0,1>> is -0.0) and  *)
(* the operators follow the IEEE rules for the sign of a zero result.      *)
(* Rounding is not modelled: the inputs are drawn from sets on which every *)
(* sqrt the code takes is the square root of a perfect square, so every    *)
(* value is exact.  NaN and the infinities are outside the model.          *)
(*                                                                         *)
(* EVALUATION.  Rust evaluates the operands of a call before the call.     *)
(* Where the order matters for the depth of the evaluation, an operator is *)
(* written [x \in Any |-> body][e]: e is evaluated first and body sees its *)
(* value, as in `let x = e; body`.                                         *)
(***************************************************************************)
EXTENDS Integers, Naturals, Sequences, FiniteSets, TLC

(***************************************************************************)
(* f64                                                                     *)
(***************************************************************************)
\* Euclid's algorithm (a function, so that its arguments are values).
GcdOf[a \in Nat, b \in Nat] == IF b = 0 THEN a ELSE GcdOf[b, a % b]

GCD(a, b) == GcdOf[a, b]

LCM(a, b) == (a \div GCD(a, b)) * b

IAbs(i) == IF i < 0 THEN 0 - i ELSE i

\* The float of the signed fraction num/den (den > 0); a zero is +0.0.
Q(num, den) ==
    LET g == GCD(IAbs(num), den)
    IN  <<IF num < 0 THEN 1 ELSE 0, IAbs(num) \div g, den \div g>>

F(i) == Q(i, 1)

PosZero == <<0, 0, 1>>
NegZero == <<1, 0, 1>>

\* The signed numerator of a float (both zeros give 0).
SNum(a) == IF a[1] = 1 THEN 0 - a[2] ELSE a[2]

\* f64::is_sign_positive: the sign bit is clear (+0.0 yes, -0.0 no).
is_sign_positive(a) == a[1] = 0

\* Unary minus flips the sign bit, of a zero too.
FNeg(a) == [x \in Any |-> <<1 - x[1], x[2], x[3]>>][a]

FAbs(a) == <<0, a[2], a[3]>>

\* a + b.  An exact zero sum is +0.0 unless both operands are negative
\* (IEEE 754 round-to-nearest).
FAdd(a, b) ==
    [x \in Any, y \in Any |->
        LET l == LCM(x[3], y[3])
            z == SNum(x) * (l \div x[3]) + SNum(y) * (l \div y[3])
        IN  IF z = 0
            THEN (IF x[1] = 1 /\ y[1] = 1 THEN NegZero ELSE PosZero)
            ELSE Q(z, l)][a, b]

FSub(a, b) == FAdd(a, FNeg(b))

\* a * b: the sign is the xor of the signs, also for a zero product.
FMul(a, b) ==
    [x \in Any, y \in Any |->
        LET g1 == GCD(x[2], y[3])
            g2 == GCD(y[2], x[3])
        IN  IF x[2] = 0 \/ y[2] = 0
            THEN <<(x[1] + y[1]) % 2, 0, 1>>
            ELSE <<(x[1] + y[1]) % 2,
                   (x[2] \div g1) * (y[2] \div g2),
                   (x[3] \div g2) * (y[3] \div g1)>>][a, b]

\* a / b for b # 0 (the model never divides by a zero).
FDiv(a, b) == [x \in Any, y \in Any |-> FMul(x, <<y[1], y[3], y[2]>>)][a, b]

\* Numeric comparisons: -0.0 and +0.0 compare equal.
FLt(a, b) ==
    [x \in Any, y \in Any |->
        LET l == LCM(x[3], y[3])
        IN  SNum(x) * (l \div x[3]) < SNum(y) * (l \div y[3])][a, b]

FLe(a, b) == ~FLt(b, a)

FEq(a, b) == a[2] = b[2] /\ a[3] = b[3] /\ (a[2] = 0 \/ a[1] = b[1])

\* Bisection for the least k in lo..hi with k * k >= n.
ISqrtIn[n \in Nat, lo \in Nat, hi \in Nat] ==
    IF lo >= hi THEN lo
    ELSE LET mid == (lo + hi) \div 2
         IN  IF mid * mid >= n THEN ISqrtIn[n, lo, mid]
             ELSE ISqrtIn[n, mid + 1, hi]

\* The least k with k * k >= n: the root of n when n is a perfect square.
ISqrt(n) == ISqrtIn[n, 0, IF n < 46340 THEN n ELSE 46340]

IsSquare(n) == ISqrt(n) * ISqrt(n) = n

\* f64::sqrt on the squares of rationals; sqrt(-0.0) is -0.0.  The root of
\* anything else is not a value of the model (using it stops the check).
FSqrt(a) ==
    [x \in Any |->
        IF x[2] = 0 THEN x
        ELSE IF x[1] = 0 /\ IsSquare(x[2]) /\ IsSquare(x[3])
             THEN <<0, ISqrt(x[2]), ISqrt(x[3])>>
             ELSE "inexact"][a]

\* f64::powi(2)
FSq(a) == FMul(a, a)

RECURSIVE FPowN(_, _)
FPowN(a, k) == IF k = 0 THEN F(1) ELSE FMul(a, FPowN(a, k - 1))

\* f64::powf for an exponent that is a natural number.  1^e is 1 for any e.
powf(a, e) == IF a = F(1) THEN F(1) ELSE FPowN(a, e[2])

\* The tuple of the values of a function on 1..n, each evaluated once.
Values(f) == f \o <<>>

RECURSIVE SumFrom(_, _)
\* acc + s[1] + s[2] + ..., added from the left.
SumFrom(acc, s) ==
    IF s = <<>> THEN acc ELSE SumFrom(FAdd(acc, Head(s)), Tail(s))

(***************************************************************************)
(* lib.rs                                                                  *)
(***************************************************************************)
\* The kernel's EPSILON is 0.00001.  The squares of differences of 1e-5
\* leave the model checker's 32-bit integers, so the model keeps the
\* constant's role (a positive value far below every distance of a scene)
\* at 1/100.
EPSILON == Q(1, 100)

float_eq(lhs, rhs) == FLt(FAbs(FSub(lhs, rhs)), EPSILON)

(***************************************************************************)
(* tuple.rs: a Tuple is <<x, y, z, w>>                                     *)
(***************************************************************************)
new_point(x, y, z) == <<x, y, z, F(1)>>

new_vector(x, y, z) == <<x, y, z, F(0)>>

\* A point and a vector with integer coordinates.
P(x, y, z) == new_point(F(x), F(y), F(z))

V(x, y, z) == new_vector(F(x), F(y), F(z))

TAdd(a, b) == Values([i \in 1..4 |-> FAdd(a[i], b[i])])

TSub(a, b) == Values([i \in 1..4 |-> FSub(a[i], b[i])])

\* Neg: zero - self
TNeg(a) == TSub(new_vector(F(0), F(0), F(0)), a)

\* Mul for Tuple: the dot product over all four components,
\* x * x' + y * y' + z * z' + w * w' added from the left.
Dot(a, b) ==
    [products \in Any |-> SumFrom(products[1], Tail(products))
    ][Values([i \in 1..4 |-> FMul(a[i], b[i])])]

\* Mul<f64> for Tuple
TScale(a, k) == Values([i \in 1..4 |-> FMul(a[i], k)])

magnitude(a) ==
    [squares \in Any |-> FSqrt(SumFrom(squares[1], Tail(squares)))
    ][Values([i \in 1..4 |-> FSq(a[i])])]

normalize(a) ==
    [v \in Any, m \in Any |-> Values([i \in 1..4 |-> FDiv(v[i], m)])
    ][a, magnitude(a)]

\* reflect(normal) = v - normal * (2 * (v . normal))
reflect(v, n) == TSub(v, TScale(n, FMul(F(2), Dot(v, n))))

\* PartialEq for Tuple
tuple_eq(a, b) == \A i \in 1..4 : float_eq(a[i], b[i])

(***************************************************************************)
(* matrix.rs: a matrix is a tuple of rows, each a tuple of f64             *)
(***************************************************************************)
\* rows[..k] chained with rows[k+1..]: the sequence without its k-th
\* element (k counted from 0), the others in their order.
Without(s, k) == SubSeq(s, 1, k) \o SubSeq(s, k + 2, Len(s))

submatrix(m, row, column) ==
    [rows \in Any |-> Values([i \in 1..Len(rows) |-> Without(rows[i], column)])
    ][Without(m, row)]

\* Matrix2::determinant
determinant2(m) == FSub(FMul(m[1][1], m[2][2]), FMul(m[1][2], m[2][1]))

RECURSIVE determinant(_)
minor(m, row, column) ==
    [sub \in Any |-> determinant(sub)][submatrix(m, row, column)]

\* A cofactor whose sign goes by the column alone.
cofactor_by_column(m, row, column) ==
    [mi \in Any |-> IF column % 2 = 0 THEN mi ELSE FNeg(mi)
    ][minor(m, row, column)]

cofactor(m, row, column) ==
    [mi \in Any |-> IF (row + column) % 2 = 0 THEN mi ELSE FNeg(mi)
    ][minor(m, row, column)]

\* The loop of determinant(): result = 0.0, then for each i in turn
\* result += rows[0][i] * cofactor(0, i).
determinant(m) ==
    IF Len(m) = 2 THEN determinant2(m)
    ELSE SumFrom(PosZero,
                 Values([i \in 1..Len(m) |-> FMul(m[1][i], cofactor(m, 0, i - 1))]))

\* An invertibility that asks for a positive determinant.
invertible_if_positive(m) == FLt(PosZero, determinant(m))

\* determinant() != 0.0
invertible(m) == ~FEq(determinant(m), PosZero)

\* A call that panicked with a message, and one that returned v.
Panic(message) == [panic |-> TRUE, message |-> message]

Ok(v) == [panic |-> FALSE, val |-> v]

\* An inverse that leaves the matrix of cofactors as it is.
inverse_without_transpose(m) ==
    IF ~invertible(m) THEN Panic("matrix is not invertible")
    ELSE [det \in Any |->
            Ok(Values([row \in 1..4 |->
                 Values([col \in 1..4 |-> FDiv(cofactor(m, row - 1, col - 1), det)])]))
         ][determinant(m)]

\* inverse(): panics on a matrix that is not invertible; otherwise
\* result[col][row] = cofactor(row, col) / determinant.
inverse(m) ==
    IF ~invertible(m) THEN Panic("matrix is not invertible")
    ELSE [det \in Any |->
            Ok(Values([col \in 1..4 |->
                 Values([row \in 1..4 |-> FDiv(cofactor(m, row - 1, col - 1), det)])]))
         ][determinant(m)]

transpose(m) == Values([i \in 1..4 |-> Values([j \in 1..4 |-> m[j][i]])])

\* Mul: element = 0.0, then for each k in turn
\* element += self[i][k] * rhs[k][j].
MMul(a, b) ==
    Values([i \in 1..4 |->
        Values([j \in 1..4 |->
            SumFrom(PosZero, Values([k \in 1..4 |-> FMul(a[i][k], b[k][j])]))])])

\* Mul<Tuple> for Matrix4: each element is the row times the tuple,
\* self[i][0] * x + self[i][1] * y + self[i][2] * z + self[i][3] * w.
MApply(m, t) == Values([i \in 1..4 |-> Dot(m[i], t)])

identity ==
    <<<<F(1), F(0), F(0), F(0)>>,
      <<F(0), F(1), F(0), F(0)>>,
      <<F(0), F(0), F(1), F(0)>>,
      <<F(0), F(0), F(0), F(1)>>>>

\* A translation that puts the offsets in the z column.
translation_in_z_column(x, y, z) ==
    [identity EXCEPT ![1][3] = x, ![2][3] = y, ![3][3] = z]

translation(x, y, z) ==
    [identity EXCEPT ![1][4] = x, ![2][4] = y, ![3][4] = z]

scaling(x, y, z) ==
    [identity EXCEPT ![1][1] = x, ![2][2] = y, ![3][3] = z]

(***************************************************************************)
(* Option<T>: None is the empty sequence, Some(v) the sequence <<v>>       *)
(***************************************************************************)
None == <<>>

Some(v) == <<v>>

(***************************************************************************)
(* color.rs: a Color is <<red, green, blue>>                               *)
(***************************************************************************)
Color(r, g, b) == <<r, g, b>>

black == Color(F(0), F(0), F(0))

CAdd(a, b) == Values([i \in 1..3 |-> FAdd(a[i], b[i])])

\* Mul<f64> for Color
CScale(a, k) == Values([i \in 1..3 |-> FMul(a[i], k)])

\* Mul for Color: component-wise
CMul(a, b) == Values([i \in 1..3 |-> FMul(a[i], b[i])])

(***************************************************************************)
(* ray.rs                                                                  *)
(***************************************************************************)
Ray(origin, direction) == [origin |-> origin, direction |-> direction]

position(r, t) == TAdd(r.origin, TScale(r.direction, t))

ray_transform(r, matrix) == Ray(MApply(matrix, r.origin), MApply(matrix, r.direction))

(***************************************************************************)
(* intersections.rs                                                        *)
(* An Intersection is [t, object]; object is the identity of the shape it  *)
(* refers to (the reference &S of the code).                               *)
(***************************************************************************)
Intersection(t, object) == [t |-> t, object |-> object]

RECURSIVE InsertByT(_, _)
\* e put into the sorted sequence s behind every element whose t is not
\* greater: the sort is stable and -0.0 and +0.0 compare Equal.
InsertByT(s, e) ==
    IF s = <<>> THEN <<e>>
    ELSE IF FLt(e.t, s[1].t) THEN <<e>> \o s
         ELSE <<s[1]>> \o InsertByT(Tail(s), e)

RECURSIVE SortFrom(_, _)
SortFrom(s, k) ==
    IF k = 0 THEN <<>> ELSE InsertByT(SortFrom(s, k - 1), s[k])

\* sort_by(|lhs, rhs| lhs.t.partial_cmp(&rhs.t).unwrap()): a stable sort.
sort_by_t(s) == SortFrom(s, Len(s))

RECURSIVE FindFrom(_, _)
\* iter().enumerate().find(|(_, e)| e.t.is_sign_positive()).map(|(i, _)| i)
\* from position i on; the index found is counted from 0 as in the code.
FindFrom(s, i) ==
    IF i > Len(s) THEN None
    ELSE IF is_sign_positive(s[i].t) THEN Some(i - 1)
         ELSE FindFrom(s, i + 1)

find_hit(s) == FindFrom(s, 1)

\* Intersections::new
Intersections_new(intersections) ==
    [sorted \in Any |-> [inner |-> sorted, hit |-> find_hit(sorted)]
    ][sort_by_t(intersections)]

\* Intersections::hit
hit(xs) == IF xs.hit = None THEN None ELSE Some(xs.inner[xs.hit[1] + 1])

(***************************************************************************)
(* material.rs and light.rs                                                *)
(***************************************************************************)
Material(color, ambient, diffuse, specular, shininess) ==
    [color |-> color, ambient |-> ambient, diffuse |-> diffuse,
     specular |-> specular, shininess |-> shininess]

\* Material::new
default_material ==
    Material(Color(F(1), F(1), F(1)), Q(1, 10), Q(9, 10), Q(9, 10), F(200))

PointLight(pos, intensity) == [position |-> pos, intensity |-> intensity]

\* An ambient term that leaves the light's intensity out.
ambient_of_material(m, light) == CScale(m.color, m.ambient)

\* The ambient term: effective_color * self.ambient.
ambient_term(m, light) == CScale(CMul(m.color, light.intensity), m.ambient)

\* The diffuse and the specular term, as the pair the code binds.
diffuse_specular(m, light, point, eyev, normalv) ==
    [effective_color \in Any, lightv \in Any |->
        [light_dot_normal \in Any |->
            IF FLt(light_dot_normal, F(0)) THEN <<black, black>>
            ELSE [diffuse \in Any, reflect_dot_eye \in Any |->
                    LET specular ==
                            IF FLe(reflect_dot_eye, F(0)) THEN black
                            ELSE CScale(CScale(light.intensity, m.specular),
                                        powf(reflect_dot_eye, m.shininess))
                    IN  <<diffuse, specular>>
                 ][CScale(CScale(effective_color, m.diffuse), light_dot_normal),
                   Dot(reflect(TNeg(lightv), normalv), eyev)]
        ][Dot(lightv, normalv)]
    ][CMul(m.color, light.intensity), normalize(TSub(light.position, point))]

\* A lighting that clamps every component of the sum to 1.
lighting_clamped(m, light, point, eyev, normalv) ==
    LET ds == diffuse_specular(m, light, point, eyev, normalv)
        sum == CAdd(CAdd(ambient_term(m, light), ds[1]), ds[2])
    IN  Values([c \in 1..3 |-> IF FLt(F(1), sum[c]) THEN F(1) ELSE sum[c]])

\* Material::lighting as material.rs has it: ambient + diffuse + specular.
lighting(m, light, point, eyev, normalv) ==
    LET ds == diffuse_specular(m, light, point, eyev, normalv)
    IN  CAdd(CAdd(ambient_term(m, light), ds[1]), ds[2])

\* The lighting that World::shade_hit calls, with the in_shadow argument:
\* in shadow the result is the ambient term alone.
lighting_shadow(m, light, point, eyev, normalv, in_shadow) ==
    IF in_shadow THEN ambient_term(m, light)
    ELSE lighting(m, light, point, eyev, normalv)

(***************************************************************************)
(* shape.rs, sphere.rs, plane.rs                                           *)
(* A shape is [kind, transform, material].                                 *)
(***************************************************************************)
Shape(kind, transform, material) ==
    [kind |-> kind, transform |-> transform, material |-> material]

\* A sphere that returns one intersection where the ray is tangent.
sphere_local_intersect_once(object, ray) ==
    [sphere_to_ray \in Any |->
        [a \in Any, b \in Any, c \in Any |->
            [discriminant \in Any |->
                IF FLt(discriminant, F(0)) THEN Intersections_new(<<>>)
                ELSE IF FEq(discriminant, F(0))
                THEN Intersections_new(
                       <<Intersection(FDiv(FNeg(b), FMul(F(2), a)), object)>>)
                ELSE Intersections_new(
                       <<Intersection(FDiv(FSub(FNeg(b), FSqrt(discriminant)),
                                           FMul(F(2), a)), object),
                         Intersection(FDiv(FAdd(FNeg(b), FSqrt(discriminant)),
                                           FMul(F(2), a)), object)>>)
            ][FSub(FSq(b), FMul(FMul(F(4), a), c))]
        ][Dot(ray.direction, ray.direction),
          FMul(F(2), Dot(ray.direction, sphere_to_ray)),
          FSub(Dot(sphere_to_ray, sphere_to_ray), F(1))]
    ][TSub(ray.origin, new_point(F(0), F(0), F(0)))]

\* A plane that compares direction.y, not its absolute value, with EPSILON.
plane_local_intersect_signed(object, local_ray) ==
    IF FLt(local_ray.direction[2], EPSILON) THEN Intersections_new(<<>>)
    ELSE Intersections_new(
           <<Intersection(FDiv(FNeg(local_ray.origin[2]), local_ray.direction[2]), object)>>)

\* The unit sphere: the roots of |O + tD|^2 = 1, both or none.
sphere_local_intersect(object, ray) ==
    [sphere_to_ray \in Any |->
        [a \in Any, b \in Any, c \in Any |->
            [discriminant \in Any |->
                IF FLt(discriminant, F(0)) THEN Intersections_new(<<>>)
                ELSE Intersections_new(
                       <<Intersection(FDiv(FSub(FNeg(b), FSqrt(discriminant)),
                                           FMul(F(2), a)), object),
                         Intersection(FDiv(FAdd(FNeg(b), FSqrt(discriminant)),
                                           FMul(F(2), a)), object)>>)
            ][FSub(FSq(b), FMul(FMul(F(4), a), c))]
        ][Dot(ray.direction, ray.direction),
          FMul(F(2), Dot(ray.direction, sphere_to_ray)),
          FSub(Dot(sphere_to_ray, sphere_to_ray), F(1))]
    ][TSub(ray.origin, new_point(F(0), F(0), F(0)))]

\* Plane::local_intersect: the plane y = 0.
plane_local_intersect(object, local_ray) ==
    IF FLt(FAbs(local_ray.direction[2]), EPSILON) THEN Intersections_new(<<>>)
    ELSE Intersections_new(
           <<Intersection(FDiv(FNeg(local_ray.origin[2]), local_ray.direction[2]), object)>>)

RECURSIVE OnObject(_, _)
\* .map(|x| Intersection::<Self>::new(x, self)) over the t of ts.
OnObject(ts, object) ==
    IF ts = <<>> THEN <<>>
    ELSE <<Intersection(Head(ts).t, object)>> \o OnObject(Tail(ts), object)

\* WorldShape::local_intersect: the t of the variant's intersections, each
\* made an Intersection on the WorldShape itself.
local_intersect(shape, object, local_ray) ==
    [ts \in Any |-> Intersections_new(OnObject(ts, object))
    ][IF shape.kind = "sphere"
      THEN sphere_local_intersect(object, local_ray).inner
      ELSE plane_local_intersect(object, local_ray).inner]

local_normal_at(shape, local_point) ==
    IF shape.kind = "sphere"
    THEN TSub(local_point, new_point(F(0), F(0), F(0)))
    ELSE new_vector(F(0), F(1), F(0))

\* An intersect that makes the direction of the object-space ray a unit
\* vector.
intersect_normalizing(shape, object, ray) ==
    [inv \in Any |->
        IF inv.panic THEN inv
        ELSE [local_ray \in Any |->
                Ok(local_intersect(shape, object,
                                   Ray(local_ray.origin, normalize(local_ray.direction))))
             ][ray_transform(ray, inv.val)]
    ][inverse(shape.transform)]

\* Shape::intersect: the ray taken into object space by the inverse of the
\* shape's transform; panics when the transform has no inverse.
intersect(shape, object, ray) ==
    [inv \in Any |->
        IF inv.panic THEN inv
        ELSE [local_ray \in Any |-> Ok(local_intersect(shape, object, local_ray))
             ][ray_transform(ray, inv.val)]
    ][inverse(shape.transform)]

\* Shape::normal_at
normal_at(shape, point) ==
    [inv \in Any |->
        IF inv.panic THEN inv
        ELSE [local_point \in Any |->
                [local_normal \in Any |->
                    [world_normal \in Any |->
                        Ok(normalize([world_normal EXCEPT ![4] = F(0)]))
                    ][MApply(transpose(inv.val), local_normal)]
                ][local_normal_at(shape, local_point)]
             ][MApply(inv.val, point)]
    ][inverse(shape.transform)]

\* A prepare_computations that sets inside and leaves the normal as it is.
prepare_computations_without_flip(i, object, r) ==
    [point \in Any, eyev \in Any |->
        [nrm \in Any |->
            IF nrm.panic THEN nrm
            ELSE Ok([t |-> i.t, object |-> i.object, point |-> point,
                     eyev |-> eyev, normalv |-> nrm.val,
                     inside |-> FLt(Dot(nrm.val, eyev), F(0)),
                     over_point |-> TAdd(point, TScale(nrm.val, EPSILON))])
        ][normal_at(object, point)]
    ][position(r, i.t), TNeg(r.direction)]

\* A prepare_computations that offsets over_point along the normal it got
\* from the shape, before the flip.
prepare_computations_offset_first(i, object, r) ==
    [point \in Any, eyev \in Any |->
        [nrm \in Any |->
            IF nrm.panic THEN nrm
            ELSE [inside \in Any |->
                    Ok([t |-> i.t, object |-> i.object, point |-> point,
                        eyev |-> eyev,
                        normalv |-> IF inside THEN TNeg(nrm.val) ELSE nrm.val,
                        inside |-> inside,
                        over_point |-> TAdd(point, TScale(nrm.val, EPSILON))])
                 ][FLt(Dot(nrm.val, eyev), F(0))]
        ][normal_at(object, point)]
    ][position(r, i.t), TNeg(r.direction)]

\* Intersection::prepare_computations; object is the shape i.object names.
prepare_computations(i, object, r) ==
    [point \in Any, eyev \in Any |->
        [nrm \in Any |->
            IF nrm.panic THEN nrm
            ELSE [inside \in Any |->
                    [normalv \in Any |->
                        Ok([t |-> i.t, object |-> i.object, point |-> point,
                            eyev |-> eyev, normalv |-> normalv, inside |-> inside,
                            over_point |-> TAdd(point, TScale(normalv, EPSILON))])
                    ][IF inside THEN TNeg(nrm.val) ELSE nrm.val]
                 ][FLt(Dot(nrm.val, eyev), F(0))]
        ][normal_at(object, point)]
    ][position(r, i.t), TNeg(r.direction)]

(***************************************************************************)
(* world.rs                                                                *)
(* A World is [objects, light]: objects a sequence of shapes, light an     *)
(* Option<PointLight>.  A shape of the world is identified by its position *)
(* in objects.                                                             *)
(***************************************************************************)
World(objects, light) == [objects |-> objects, light |-> light]

RECURSIVE extend_all(_, _, _)
\* The loop of intersect_world over the first k objects:
\* xs.extend_from_slice(object.intersect(r)).
extend_all(w, r, k) ==
    IF k = 0 THEN Ok(<<>>)
    ELSE [before \in Any, here \in Any |->
            IF before.panic THEN before
            ELSE IF here.panic THEN here
            ELSE Ok(before.val \o here.val.inner)
         ][extend_all(w, r, k - 1), intersect(w.objects[k], k, r)]

\* World::intersect_world
intersect_world(w, r) ==
    [all \in Any |->
        IF all.panic THEN all
        ELSE [sorted \in Any |-> Ok(Intersections_new(sorted))][sort_by_t(all.val)]
    ][extend_all(w, r, Len(w.objects))]

\* World::is_shadowed; light.unwrap() panics when the world has no light.
is_shadowed(w, point) ==
    IF w.light = None THEN Panic("called Option::unwrap() on a None value")
    ELSE [v \in Any |->
            [distance \in Any, direction \in Any |->
                [intersections \in Any |->
                    IF intersections.panic THEN intersections
                    ELSE [h \in Any |->
                            Ok(IF h = None THEN FALSE ELSE FLt(h[1].t, distance))
                         ][hit(intersections.val)]
                ][intersect_world(w, Ray(point, direction))]
            ][magnitude(v), normalize(v)]
         ][TSub(w.light[1].position, point)]

\* A shade_hit whose shadow test is at comps.point, on the surface itself.
shade_hit_at_the_point(w, comps) ==
    [shadowed \in Any |->
        IF shadowed.panic THEN shadowed
        ELSE Ok(lighting_shadow(w.objects[comps.object].material, w.light[1],
                                comps.point, comps.eyev, comps.normalv,
                                shadowed.val))
    ][is_shadowed(w, comps.point)]

\* World::shade_hit
shade_hit(w, comps) ==
    [shadowed \in Any |->
        IF shadowed.panic THEN shadowed
        ELSE Ok(lighting_shadow(w.objects[comps.object].material, w.light[1],
                                comps.point, comps.eyev, comps.normalv,
                                shadowed.val))
    ][is_shadowed(w, comps.over_point)]

\* A color_at that shades only in a world that has a light.
color_at_guarding_the_light(w, r) ==
    [found \in Any |->
        IF found.panic THEN found
        ELSE [h \in Any |->
                IF h = None \/ w.light = None THEN Ok(black)
                ELSE [comps \in Any |->
                        IF comps.panic THEN comps ELSE shade_hit(w, comps.val)
                     ][prepare_computations(h[1], w.objects[h[1].object], r)]
             ][hit(found.val)]
    ][intersect_world(w, r)]

\* World::color_at
color_at(w, r) ==
    [found \in Any |->
        IF found.panic THEN found
        ELSE [h \in Any |->
                IF h = None THEN Ok(black)
                ELSE [comps \in Any |->
                        IF comps.panic THEN comps ELSE shade_hit(w, comps.val)
                     ][prepare_computations(h[1], w.objects[h[1].object], r)]
             ][hit(found.val)]
    ][intersect_world(w, r)]

(***************************************************************************)
(* canvas.rs: a Canvas is [width, height, pixels]                          *)
(***************************************************************************)
Canvas_new(width, height) ==
    [width |-> width, height |-> height,
     pixels |-> [i \in 1..(width * height) |-> black]]

\* An index that adds the coordinates.
index_without_width(canvas, x, y) == y + x

\* The index into pixels, counted from 0.
coordinate_to_index(canvas, x, y) == y * canvas.width + x

\* A write that stores the color in the cell and in every cell after it.
write_pixel_to_end(canvas, x, y, color) ==
    LET index == y * canvas.width + x
    IN  IF index >= Len(canvas.pixels) THEN Panic("index out of bounds")
        ELSE Ok([canvas EXCEPT !.pixels =
                    [i \in 1..Len(canvas.pixels) |->
                        IF i >= index + 1 THEN color ELSE canvas.pixels[i]]])

\* A write that stores the color in the cell and clears the cell after it.
write_pixel_and_next(canvas, x, y, color) ==
    LET index == y * canvas.width + x
    IN  IF index >= Len(canvas.pixels) THEN Panic("index out of bounds")
        ELSE Ok([canvas EXCEPT !.pixels =
                    [i \in 1..Len(canvas.pixels) |->
                        IF i = index + 1 THEN color
                        ELSE IF i = index + 2 THEN <<F(0), F(0), F(0)>>
                        ELSE canvas.pixels[i]]])

\* A write that takes the index down the columns.
write_pixel_by_column(canvas, x, y, color) ==
    LET index == x * canvas.height + y
    IN  IF index >= Len(canvas.pixels) THEN Panic("index out of bounds")
        ELSE Ok([canvas EXCEPT !.pixels[index + 1] = color])

\* pixels[index] = color; an index outside the vector panics.
write_pixel(canvas, x, y, color) ==
    LET index == coordinate_to_index(canvas, x, y)
    IN  IF index >= Len(canvas.pixels) THEN Panic("index out of bounds")
        ELSE Ok([canvas EXCEPT !.pixels[index + 1] = color])

pixel_at(canvas, x, y) == canvas.pixels[coordinate_to_index(canvas, x, y) + 1]

\* (component * 255.0).clamp(0.0, 255.0).round() as u8; round takes a half
\* away from zero.
scale_component(component) ==
    [scaled \in Any |->
        IF FLt(scaled, F(0)) THEN 0
        ELSE IF FLt(F(255), scaled) THEN 255
        ELSE (2 * scaled[2] + scaled[3]) \div (2 * scaled[3])
    ][FMul(component, F(255))]

\* Canvas::pixel_to_rgb
pixel_to_rgb(pixel) ==
    <<scale_component(pixel[1]), scale_component(pixel[2]), scale_component(pixel[3])>>

\* A String and a Vec<u8> are sequences of characters.
Digits == <<"0", "1", "2", "3", "4", "5", "6", "7", "8", "9">>

RECURSIVE to_string(_)
\* to_string of an unsigned integer: its decimal digits.
to_string(n) ==
    IF n < 10 THEN <<Digits[n + 1]>>
    ELSE to_string(n \div 10) \o <<Digits[(n % 10) + 1]>>

\* A body of for_each that breaks the line before the separator is counted.
push_component_late(acc, component) ==
    [flushed \in Any |->
        [result |-> flushed.result,
         line |-> IF flushed.line # <<>>
                  THEN flushed.line \o <<" ">> \o component
                  ELSE component]
    ][IF Len(acc.line) + Len(component) > 70
      THEN [result |-> acc.result \o acc.line \o <<"\n">>, line |-> <<>>]
      ELSE acc]

\* The body of for_each in to_ppm: the line is written out and cleared when
\* the component and its separator would take it past 70 characters, then
\* the component joins the line.
push_component(acc, component) ==
    [flushed \in Any |->
        [result |-> flushed.result,
         line |-> IF flushed.line # <<>>
                  THEN flushed.line \o <<" ">> \o component
                  ELSE component]
    ][IF Len(acc.line) + Len(component) + 1 > 70
      THEN [result |-> acc.result \o acc.line \o <<"\n">>, line |-> <<>>]
      ELSE acc]

RECURSIVE for_each(_, _)
\* for_each over the components of one row, from the left.
for_each(acc, components) ==
    IF components = <<>> THEN acc
    ELSE [next \in Any, rest \in Any |-> for_each(next, rest)
         ][push_component(acc, Head(components)), Tail(components)]

RECURSIVE flat_map(_)
\* row.iter().flat_map(pixel_to_rgb).map(to_string)
flat_map(row) ==
    IF row = <<>> THEN <<>>
    ELSE [rgb \in Any |->
            <<to_string(rgb[1]), to_string(rgb[2]), to_string(rgb[3])>>
         ][pixel_to_rgb(Head(row))] \o [rest \in Any |-> flat_map(rest)][Tail(row)]

\* One turn of the loop over the rows: a fresh line, the components, and
\* the rest of the line written out.
write_row(result, row) ==
    [done \in Any |->
        IF done.line # <<>> THEN done.result \o done.line \o <<"\n">>
        ELSE done.result
    ][for_each([result |-> result, line |-> <<>>], flat_map(row))]

\* slice.chunks(size), which panics when size is 0: the pieces of size
\* elements, the last one shorter when the length is no multiple.
chunks(s, size) ==
    [k \in 1..((Len(s) + size - 1) \div size) |->
        SubSeq(s, (k - 1) * size + 1,
               IF k * size < Len(s) THEN k * size ELSE Len(s))]

RECURSIVE write_rows(_, _)
\* for row in rows
write_rows(result, rows) ==
    IF rows = <<>> THEN result
    ELSE [next \in Any, rest \in Any |-> write_rows(next, rest)
         ][write_row(result, Head(rows)), Tail(rows)]

\* Canvas::to_ppm
to_ppm(canvas) ==
    [header \in Any |->
        IF canvas.width = 0 THEN Panic("chunk size must be non-zero")
        ELSE Ok(write_rows(header, chunks(canvas.pixels, canvas.width)))
    ][<<"P", "3", "\n">> \o to_string(canvas.width) \o <<" ">>
        \o to_string(canvas.height) \o <<"\n", "2", "5", "5", "\n">>]

(***************************************************************************)
(* camera.rs                                                               *)
(* A field of view is given by the tangent of its half, the one value      *)
(* Camera::new takes from it: the angle fov is the float tan(fov / 2).     *)
(***************************************************************************)
Camera_new(hsize, vsize, field_of_view) ==
    LET half_view == field_of_view
        aspect == FDiv(F(hsize), F(vsize))
        wide == FLe(F(1), aspect)
        half_width == IF wide THEN half_view ELSE FMul(half_view, aspect)
        half_height == IF wide THEN FDiv(half_view, aspect) ELSE half_view
    IN  [hsize |-> hsize, vsize |-> vsize, field_of_view |-> field_of_view,
         transform |-> identity, half_width |-> half_width,
         half_height |-> half_height,
         pixel_size |-> FDiv(FMul(half_width, F(2)), F(hsize))]

\* Camera::ray_for_pixel
ray_for_pixel(cam, px, py) ==
    [xoffset \in Any, yoffset \in Any |->
        [world_x \in Any, world_y \in Any, inv \in Any |->
            IF inv.panic THEN inv
            ELSE [pixel \in Any, origin \in Any |->
                    Ok(Ray(origin, normalize(TSub(pixel, origin))))
                 ][MApply(inv.val, new_point(world_x, world_y, F(-1))),
                   MApply(inv.val, new_point(F(0), F(0), F(0)))]
        ][FSub(cam.half_width, xoffset), FSub(cam.half_height, yoffset),
          inverse(cam.transform)]
    ][FMul(FAdd(F(px), Q(1, 2)), cam.pixel_size),
      FMul(FAdd(F(py), Q(1, 2)), cam.pixel_size)]

\* The first two lines of the body of render's inner loop: the color of
\* the pixel (x, y).
pixel_color(cam, w, px, py) ==
    [r \in Any |-> IF r.panic THEN r ELSE color_at(w, r.val)
    ][ray_for_pixel(cam, px, py)]

\* The body of render's inner loop: the pixel (x, y) of image written.
render_pixel(cam, w, image, px, py) ==
    [color \in Any |->
        IF color.panic THEN color ELSE write_pixel(image, px, py, color.val)
    ][pixel_color(cam, w, px, py)]

RECURSIVE render_from(_, _, _, _)
\* The loops of render from the k-th pixel on, rows from the top and each
\* row from the left: k = y * hsize + x.
render_from(cam, w, image, k) ==
    IF k = cam.hsize * cam.vsize THEN Ok(image)
    ELSE [written \in Any |->
            IF written.panic THEN written
            ELSE render_from(cam, w, written.val, k + 1)
         ][render_pixel(cam, w, image, k % cam.hsize, k \div cam.hsize)]

\* Camera::render
render(cam, w) == render_from(cam, w, Canvas_new(cam.hsize, cam.vsize), 0)

(***************************************************************************)
(* STATE                                                                   *)
(***************************************************************************)
VARIABLES
    list,       \* the Vec<Intersection> handed to Intersections::new
    xs,         \* Option: the Intersections built from list
    the_hit,    \* Option: what xs.hit() returned, once it was called
    world,      \* the World
    ray,        \* the ray of a world query
    answer,     \* the last call on the world and what it returned
    camera,     \* Option: the Camera that renders
    image,      \* Option: the Canvas render is filling
    writes,     \* the cells (indices into pixels) written so far, in order
    pos,        \* Option: <<x, y>> of the loops of render
    remaining,  \* the pixels not yet visited, when the order is free
    workers,    \* the workers of a concurrent render
    returned    \* Option: what render returned

varsXs == <<list, xs, the_hit>>

varsWorld == <<world, ray, answer>>

varsRender == <<camera, image, writes, pos, remaining, workers, returned>>

vars == <<list, xs, the_hit, world, ray, answer,
          camera, image, writes, pos, remaining, workers, returned>>

\* No call yet.
NoCall == [op |-> "none"]

IdleXs == list = <<>> /\ xs = None /\ the_hit = None

IdleWorld == world = World(<<>>, None) /\ ray = None /\ answer = NoCall

IdleRender ==
    /\ camera = None /\ image = None /\ writes = <<>> /\ pos = None
    /\ remaining = {} /\ workers = <<>> /\ returned = None

(***************************************************************************)
(* Intersections::new and hit() on every short list of intersections       *)
(***************************************************************************)
\* The longest list given to Intersections::new.
MaxLen == 3

\* The shapes an intersection of a list may refer to.
NumShapes == 2

\* The t of the intersections: negative, the two zeros, positive.
TValues == {F(-3), F(-1), NegZero, PosZero, F(2), F(5)}

Lists ==
    UNION {[1..n -> {Intersection(t, o) : t \in TValues, o \in 1..NumShapes}] :
           n \in 0..MaxLen}

InitXs ==
    list \in Lists /\ xs = None /\ the_hit = None /\ IdleWorld /\ IdleRender

\* let xs = Intersections::new(list)
New ==
    /\ xs = None
    /\ xs' = Some(Intersections_new(list))
    /\ UNCHANGED <<list, the_hit, varsWorld, varsRender>>

\* let i = xs.hit()
Hit ==
    /\ xs # None
    /\ the_hit = None
    /\ the_hit' = Some(hit(xs[1]))
    /\ UNCHANGED <<list, xs, varsWorld, varsRender>>

NextXs == New \/ Hit

SpecXs == InitXs /\ [][NextXs]_vars

\* The positions of list whose t is >= 0 (as f64 compares: -0.0 >= 0.0).
NonNegative(s) == {i \in 1..Len(s) : FLe(F(0), s[i].t)}

\* C1: for every list given to Intersections::new, in any order, hit()
\* returns the intersection with the smallest t among those with t >= 0,
\* and None when the list is empty or every t is negative.
C1_HitIsSmallestNonNegative ==
    the_hit # None =>
        IF NonNegative(list) = {}
        THEN the_hit[1] = None
        ELSE /\ the_hit[1] # None
             /\ \E i \in NonNegative(list) : list[i] = the_hit[1][1]
             /\ \A i \in NonNegative(list) : FLe(the_hit[1][1].t, list[i].t)

(***************************************************************************)
(* The calls on a World.  The scenes lie on the y axis: spheres centred on *)
(* it, planes across it, the light on it, rays and points along it, so     *)
(* that every length and every root the code takes is a rational.          *)
(***************************************************************************)
\* The most objects a world holds.
MaxObjects == 2

\* The material of the first sphere of World::default.
outer_material ==
    Material(Color(Q(4, 5), F(1), Q(3, 5)), Q(1, 10), Q(7, 10), Q(1, 5), F(200))

ObjectCatalogue ==
    { Shape("sphere", identity, outer_material),
      Shape("sphere", scaling(Q(1, 2), Q(1, 2), Q(1, 2)), default_material),
      Shape("sphere", translation(F(0), F(13), F(0)), default_material),
      Shape("plane", identity, default_material),
      Shape("plane", translation(F(0), F(-3), F(0)), outer_material) }

Lights ==
    { None,
      Some(PointLight(P(0, 10, 0), Color(F(1), F(1), F(1)))),
      Some(PointLight(P(0, -10, 0), Color(F(1), Q(1, 2), Q(1, 2)))) }

Worlds ==
    UNION {{World(objects, light) : objects \in [1..n -> ObjectCatalogue], light \in Lights} :
           n \in 0..MaxObjects}

\* Rays along the y axis, up and down.
AxisRays ==
    {Ray(P(0, y, 0), V(0, d, 0)) : y \in {-5, 0, 5}, d \in {-1, 1}}

\* Rays beside the axis: the ray of the tests of World::default, a ray that
\* passes every sphere, and a ray across the planes away from the axis.
SideRays ==
    { Ray(P(0, 0, -5), V(0, 0, 1)),
      Ray(P(0, 5, -5), V(0, 0, 1)),
      Ray(P(4, 5, 0), V(0, -1, 0)) }

\* The points asked for their shadow: below, between and above the objects
\* and the light.
ShadowPoints == {P(0, -5, 0), P(0, 0, 0), P(0, 2, 0), P(0, 12, 0), P(0, 20, 0)}

InitWorld ==
    IdleXs /\ world \in Worlds /\ ray = None /\ answer = NoCall /\ IdleRender

\* w.intersect_world(r)
IntersectWorld ==
    /\ answer = NoCall
    /\ \E r \in AxisRays \cup SideRays :
        /\ ray' = Some(r)
        /\ answer' = [op |-> "intersect_world", val |-> intersect_world(world, r)]
        /\ UNCHANGED <<world, varsXs, varsRender>>

\* w.is_shadowed(p)
IsShadowed ==
    /\ answer = NoCall
    /\ \E p \in ShadowPoints :
        /\ ray' = None
        /\ answer' = [op |-> "is_shadowed", point |-> p, val |-> is_shadowed(world, p)]
        /\ UNCHANGED <<world, varsXs, varsRender>>

\* w.color_at(r)
ColorAt ==
    /\ answer = NoCall
    /\ \E r \in AxisRays :
        /\ ray' = Some(r)
        /\ answer' = [op |-> "color_at", val |-> color_at(world, r)]
        /\ UNCHANGED <<world, varsXs, varsRender>>

\* w.shade_hit(comps), comps prepared from any intersection of r with the
\* world.
ShadeHit ==
    /\ answer = NoCall
    /\ \E r \in AxisRays :
         \E found \in {intersect_world(world, r)} :
            /\ ~found.panic
            /\ \E i \in {found.val.inner[k] : k \in 1..Len(found.val.inner)} :
                 \E comps \in {prepare_computations(i, world.objects[i.object], r)} :
                     /\ ~comps.panic
                     /\ ray' = Some(r)
                     /\ answer' = [op |-> "shade_hit", comps |-> comps.val,
                                   val |-> shade_hit(world, comps.val)]
                     /\ UNCHANGED <<world, varsXs, varsRender>>

NextWorld == IntersectWorld \/ IsShadowed \/ ColorAt \/ ShadeHit

SpecWorld == InitWorld /\ [][NextWorld]_vars

\* The intersections intersect(r) gives on the k-th object of w.
OfObject(w, r, k) == intersect(w.objects[k], k, r).val.inner

\* How often e occurs in the sequence s.
Count(s, e) == Cardinality({i \in 1..Len(s) : s[i] = e})

RECURSIVE TotalLen(_, _, _)
\* The sum of the per-object counts of the first k objects.
TotalLen(w, r, k) ==
    IF k = 0 THEN 0 ELSE TotalLen(w, r, k - 1) + Len(OfObject(w, r, k))

\* The positions of s that hold a smallest t among those with t >= 0.
SmallestNonNegative(s) ==
    {i \in NonNegative(s) : \A j \in NonNegative(s) : FLe(s[i].t, s[j].t)}

\* C2: intersect_world returns exactly the intersections intersect(ray)
\* produces on each object (none lost, none added, the length the sum of the
\* per-object counts), in ascending order of t, and its hit is the smallest
\* t >= 0 over all objects, None when there is none.
C2_IntersectWorldMergesSortsAndHits ==
    (answer.op = "intersect_world" /\ ~answer.val.panic) =>
        LET r == ray[1]
            got == answer.val.val
            n == Len(world.objects)
        IN  /\ \A i \in 1..Len(got.inner) : got.inner[i].object \in 1..n
            /\ \A k \in 1..n :
                  \A e \in {got.inner[i] : i \in 1..Len(got.inner)}
                            \cup {OfObject(world, r, k)[i] : i \in 1..Len(OfObject(world, r, k))} :
                      e.object = k => Count(got.inner, e) = Count(OfObject(world, r, k), e)
            /\ Len(got.inner) = TotalLen(world, r, n)
            /\ \A i \in 1..(Len(got.inner) - 1) : FLe(got.inner[i].t, got.inner[i + 1].t)
            /\ IF NonNegative(got.inner) = {}
               THEN hit(got) = None
               ELSE /\ hit(got) # None
                    /\ \E i \in SmallestNonNegative(got.inner) : hit(got)[1] = got.inner[i]

\* The intersections of the ray cast from point toward the light of w.
Cast(w, point) ==
    LET v == TSub(w.light[1].position, point)
    IN  intersect_world(w, Ray(point, normalize(v))).val.inner

\* C3: is_shadowed(point) is true exactly when the ray cast from point
\* toward the light has a hit (the smallest t >= 0) whose t is less than the
\* distance from point to the light; with no hit, with the hit at
\* t >= distance, or with every t negative, it is false.
C3_ShadowedIffHitBeforeLight ==
    (answer.op = "is_shadowed" /\ ~answer.val.panic) =>
        LET distance == magnitude(TSub(world.light[1].position, answer.point))
            cast == Cast(world, answer.point)
        IN  /\ answer.val.val <=>
                  \E i \in SmallestNonNegative(cast) : FLt(cast[i].t, distance)
            /\ NonNegative(cast) = {} => ~answer.val.val
            /\ (\A i \in SmallestNonNegative(cast) : FLe(distance, cast[i].t))
                  => ~answer.val.val

\* C4: color_at(ray) is black whenever intersect_world(ray) has no hit (no
\* intersection, or every t negative), and otherwise what shade_hit returns
\* for the computations prepared for the hit, the smallest t >= 0.
C4_ColorAtIsBlackOrShadeHit ==
    answer.op = "color_at" =>
        LET r == ray[1]
            cast == intersect_world(world, r).val.inner
        IN  IF NonNegative(cast) = {}
            THEN answer.val = Ok(black)
            ELSE \E i \in SmallestNonNegative(cast) :
                    LET comps == prepare_computations(cast[i], world.objects[cast[i].object], r)
                    IN  answer.val = shade_hit(world, comps.val)

(***************************************************************************)
(* Material::lighting on a surface point at the origin.  Lights, eyes and  *)
(* normals lie in the y-z plane on 3-4-5 directions, so that every unit    *)
(* vector and every dot product is a rational; the shininess is small      *)
(* where reflect . eye is neither 0 nor 1.                                 *)
(***************************************************************************)
LightingMaterials ==
    { Material(Color(F(1), F(1), F(1)), Q(1, 10), Q(9, 10), Q(9, 10), F(2)),
      Material(Color(Q(4, 5), F(1), Q(3, 5)), Q(1, 10), Q(7, 10), Q(1, 5), F(3)),
      Material(Color(F(1), Q(1, 5), F(1)), F(1), Q(9, 10), Q(9, 10), F(1)) }

LightingLights ==
    { PointLight(place, intensity) :
        place \in {P(0, 0, -10), P(0, 6, -8), P(0, -6, -8), P(0, 10, 0), P(0, 0, 10)},
        intensity \in {Color(F(1), F(1), F(1)), Color(F(1), Q(1, 2), Q(1, 2))} }

LightingEyes ==
    { V(0, 0, -1), V(0, 0, 1),
      new_vector(F(0), Q(3, 5), Q(-4, 5)), new_vector(F(0), Q(-3, 5), Q(-4, 5)),
      new_vector(F(0), Q(4, 5), Q(-3, 5)) }

LightingNormals == {V(0, 0, -1), V(0, 0, 1)}

\* The calls of the tests of material.rs that stay rational: the default
\* material seen head-on, the light in front of the surface and behind it.
LightingTests ==
    { <<default_material, PointLight(P(0, 0, z), Color(F(1), F(1), F(1))),
        V(0, 0, -1), V(0, 0, -1)>> : z \in {-10, 10} }

LightingCalls ==
    (LightingMaterials \X LightingLights \X LightingEyes \X LightingNormals)
        \cup LightingTests

InitLighting == IdleXs /\ IdleWorld /\ IdleRender

\* m.lighting(light, point, eyev, normalv), the four-argument lighting
Lighting ==
    /\ answer = NoCall
    /\ \E call \in LightingCalls :
        answer' = [op |-> "lighting", m |-> call[1], light |-> call[2],
                   eyev |-> call[3], normalv |-> call[4], in_shadow |-> FALSE,
                   val |-> lighting(call[1], call[2], P(0, 0, 0), call[3], call[4])]
    /\ UNCHANGED <<world, ray, varsXs, varsRender>>

\* m.lighting(light, point, eyev, normalv, in_shadow), as shade_hit calls it
LightingShadow ==
    /\ answer = NoCall
    /\ \E call \in LightingCalls, in_shadow \in BOOLEAN :
        answer' = [op |-> "lighting", m |-> call[1], light |-> call[2],
                   eyev |-> call[3], normalv |-> call[4], in_shadow |-> in_shadow,
                   val |-> lighting_shadow(call[1], call[2], P(0, 0, 0), call[3],
                                           call[4], in_shadow)]
    /\ UNCHANGED <<world, ray, varsXs, varsRender>>

NextLighting == Lighting \/ LightingShadow

SpecLighting == InitLighting /\ [][NextLighting]_vars

LightV == normalize(TSub(answer.light.position, P(0, 0, 0)))

LightDotNormal == Dot(LightV, answer.normalv)

ReflectDotEye == Dot(reflect(TNeg(LightV), answer.normalv), answer.eyev)

\* C6: not in shadow, lighting returns ambient + diffuse + specular, no
\* component clamped; diffuse and specular are black when light . normal is
\* negative, and specular is black when reflect . eye <= 0.
C6_LitIsUnclampedSum ==
    (answer.op = "lighting" /\ ~answer.in_shadow) =>
        \A c \in 1..3 :
            LET effective == FMul(answer.m.color[c], answer.light.intensity[c])
                ambient == FMul(effective, answer.m.ambient)
                diffuse ==
                    IF FLt(LightDotNormal, F(0)) THEN F(0)
                    ELSE FMul(FMul(effective, answer.m.diffuse), LightDotNormal)
                specular ==
                    IF FLt(LightDotNormal, F(0)) \/ FLe(ReflectDotEye, F(0)) THEN F(0)
                    ELSE FMul(FMul(answer.light.intensity[c], answer.m.specular),
                              powf(ReflectDotEye, answer.m.shininess))
            IN  FEq(answer.val[c], FAdd(FAdd(ambient, diffuse), specular))

\* A lit call whose sum exceeds 1: the default material seen head-on.
C6_LitAboveOne ==
    /\ answer.op = "lighting"
    /\ ~answer.in_shadow
    /\ answer.m = default_material
    /\ \A c \in 1..3 : answer.val[c] = Q(19, 10)

(***************************************************************************)
(* Camera::render.  The eye and the light are at the origin and every      *)
(* sphere is centred on the ray of a pixel, so that every ray meets a      *)
(* sphere through its centre or misses it, and all lengths are rational.   *)
(***************************************************************************)
\* The cameras: 1x1, 2x1, 1x2, 3x1 and 2x2 pixels, the field of view of each
\* chosen so that its pixels' rays run along 3-4-5 or 1-2-2 directions.
Cameras ==
    { Camera_new(1, 1, F(1)), Camera_new(2, 1, Q(3, 2)), Camera_new(1, 2, Q(3, 2)),
      Camera_new(3, 1, Q(9, 8)), Camera_new(2, 2, F(4)) }

\* A sphere in the last pixel of the 2x1 and of the 3x1 image, and one in
\* the last pixel of the 2x2 image.
RenderCatalogue ==
    { Shape("sphere", translation(F(-3), F(0), F(-4)), outer_material),
      Shape("sphere", translation(F(-4), F(-4), F(-2)), default_material) }

\* The worlds rendered; one without a light, where shading panics.
RenderWorlds ==
    UNION {{World(objects, light) :
                objects \in [1..n -> RenderCatalogue],
                light \in {None, Some(PointLight(P(0, 0, 0), Color(F(1), F(1), F(1))))}} :
           n \in 0..MaxObjects}

\* Every pixel <<x, y>> of the camera's image.
Pixels(cam) == (0..(cam.hsize - 1)) \X (0..(cam.vsize - 1))

InitRender ==
    /\ IdleXs /\ ray = None /\ answer = NoCall
    /\ world \in RenderWorlds
    /\ camera \in {Some(cam) : cam \in Cameras}
    /\ image = None /\ writes = <<>> /\ pos = None
    /\ remaining = {} /\ workers = <<>> /\ returned = None

\* let mut image = Canvas::new(self.hsize, self.vsize), and the loops entered
RenderBegin ==
    /\ image = None
    /\ returned = None
    /\ image' = Some(Canvas_new(camera[1].hsize, camera[1].vsize))
    /\ pos' = Some(<<0, 0>>)
    /\ UNCHANGED <<varsXs, varsWorld, camera, writes, remaining, workers, returned>>

\* One turn of the inner loop, and the step to the next x, or to the next
\* row when this one is done.  A panic of the body ends render.
RenderPixel ==
    /\ pos # None
    /\ pos[1][2] < camera[1].vsize
    /\ \E written \in {render_pixel(camera[1], world, image[1], pos[1][1], pos[1][2])} :
        IF written.panic
        THEN /\ returned' = Some(written)
             /\ pos' = None
             /\ UNCHANGED <<image, writes>>
        ELSE /\ image' = Some(written.val)
             /\ writes' = Append(writes, coordinate_to_index(image[1], pos[1][1], pos[1][2]))
             /\ pos' = IF pos[1][1] + 1 < camera[1].hsize
                       THEN Some(<<pos[1][1] + 1, pos[1][2]>>)
                       ELSE Some(<<0, pos[1][2] + 1>>)
             /\ UNCHANGED returned
    /\ UNCHANGED <<varsXs, varsWorld, camera, remaining, workers>>

\* The loops are over: image is returned.
RenderReturn ==
    /\ pos # None
    /\ pos[1][2] = camera[1].vsize
    /\ returned' = Some(Ok(image[1]))
    /\ pos' = None
    /\ UNCHANGED <<varsXs, varsWorld, camera, image, writes, remaining, workers>>

NextRender == RenderBegin \/ RenderPixel \/ RenderReturn

SpecRender == InitRender /\ [][NextRender]_vars

\* C7: render returns a grid of hsize x vsize pixels whose pixel (x, y) is
\* world.color_at(ray_for_pixel(x, y)) for every x < hsize and y < vsize;
\* every cell is written exactly once, and no cell outside the grid is
\* written (at no moment of the render twice, or outside).
C7_RenderWritesEveryPixelOnce ==
    LET cam == camera[1]
        cells == 0..(cam.hsize * cam.vsize - 1)
    IN  /\ \A i \in 1..Len(writes) :
              /\ writes[i] \in cells
              /\ \A j \in 1..Len(writes) : writes[j] = writes[i] => j = i
        /\ (returned # None /\ ~returned[1].panic) =>
              /\ returned[1].val.width = cam.hsize
              /\ returned[1].val.height = cam.vsize
              /\ Len(returned[1].val.pixels) = cam.hsize * cam.vsize
              /\ \A c \in cells : \E i \in 1..Len(writes) : writes[i] = c
              /\ \A p \in Pixels(cam) :
                    pixel_at(returned[1].val, p[1], p[2])
                        = color_at(world, ray_for_pixel(cam, p[1], p[2]).val).val

\* A finished render of 2x2 pixels that are not all of one color.
C7_RenderedTwoByTwo ==
    /\ returned # None
    /\ ~returned[1].panic
    /\ camera[1].hsize = 2 /\ camera[1].vsize = 2
    /\ Len(writes) = 4
    /\ \E p \in Pixels(camera[1]), q \in Pixels(camera[1]) :
          pixel_at(returned[1].val, p[1], p[2]) # pixel_at(returned[1].val, q[1], q[2])

(***************************************************************************)
(* The same render with its pixels visited in any order                    *)
(***************************************************************************)
VisitBegin ==
    /\ image = None
    /\ returned = None
    /\ image' = Some(Canvas_new(camera[1].hsize, camera[1].vsize))
    /\ remaining' = Pixels(camera[1])
    /\ UNCHANGED <<varsXs, varsWorld, camera, writes, pos, workers, returned>>

\* The body of the loop for any pixel not yet visited.
VisitAny ==
    /\ image # None
    /\ returned = None
    /\ \E p \in remaining :
         \E written \in {render_pixel(camera[1], world, image[1], p[1], p[2])} :
            IF written.panic
            THEN /\ returned' = Some(written)
                 /\ remaining' = {}
                 /\ UNCHANGED <<image, writes>>
            ELSE /\ image' = Some(written.val)
                 /\ writes' = Append(writes, coordinate_to_index(image[1], p[1], p[2]))
                 /\ remaining' = remaining \ {p}
                 /\ UNCHANGED returned
    /\ UNCHANGED <<varsXs, varsWorld, camera, pos, workers>>

VisitReturn ==
    /\ image # None
    /\ returned = None
    /\ remaining = {}
    /\ returned' = Some(Ok(image[1]))
    /\ UNCHANGED <<varsXs, varsWorld, camera, image, writes, pos, remaining, workers>>

NextOrder == VisitBegin \/ VisitAny \/ VisitReturn

SpecOrder == InitRender /\ [][NextOrder]_vars

\* C8: whatever the order in which the pixels are visited, the grid at the
\* end is the grid of render's row-by-row loops (and a render that panics
\* panics in every order).
C8_OrderDoesNotMatter ==
    returned # None =>
        LET by_rows == render(camera[1], world)
        IN  /\ returned[1].panic <=> by_rows.panic
            /\ ~returned[1].panic => returned[1].val = by_rows.val

\* A finished render that visited the last pixel of a 2x2 image first and
\* whose pixels are not all of one color.
C8_VisitedLastPixelFirst ==
    /\ returned # None
    /\ ~returned[1].panic
    /\ camera[1].hsize = 2 /\ camera[1].vsize = 2
    /\ Len(writes) = 4
    /\ writes[1] = 3
    /\ \E i \in 1..4, j \in 1..4 : returned[1].val.pixels[i] # returned[1].val.pixels[j]

(***************************************************************************)
(* The same render by workers that run concurrently without locks.  Each   *)
(* worker owns the pixels of its share; it computes a pixel's color from   *)
(* the camera and the world, which nobody writes, and then stores it in    *)
(* the pixel's cell.  A panic in a worker makes the render panic.          *)
(***************************************************************************)
\* The workers of a concurrent render.
NumWorkers == 2

\* The shares of the workers: pixels dealt out in turn, or in blocks.
Shares(cam) ==
    LET n == cam.hsize * cam.vsize
        k(p) == p[2] * cam.hsize + p[1]
    IN  { [w \in 1..NumWorkers |-> {p \in Pixels(cam) : k(p) % NumWorkers = w - 1}],
          [w \in 1..NumWorkers |-> {p \in Pixels(cam) : (k(p) * NumWorkers) \div n = w - 1}] }

Worker(own, pc, pixel, color) ==
    [own |-> own, pc |-> pc, pixel |-> pixel, color |-> color]

ParBegin ==
    /\ image = None
    /\ returned = None
    /\ image' = Some(Canvas_new(camera[1].hsize, camera[1].vsize))
    /\ \E share \in Shares(camera[1]) :
         workers' = [w \in 1..NumWorkers |-> Worker(share[w], "idle", None, None)]
    /\ UNCHANGED <<varsXs, varsWorld, camera, writes, pos, remaining, returned>>

\* Worker w takes a pixel of its share and computes its color.
Compute(w) ==
    /\ returned = None
    /\ w \in DOMAIN workers
    /\ workers[w].pc = "idle"
    /\ \E p \in workers[w].own :
         \E color \in {pixel_color(camera[1], world, p[1], p[2])} :
            IF color.panic
            THEN /\ returned' = Some(color)
                 /\ UNCHANGED workers
            ELSE /\ workers' = [workers EXCEPT ![w] =
                                    Worker(workers[w].own \ {p}, "write", Some(p), Some(color.val))]
                 /\ UNCHANGED returned
    /\ UNCHANGED <<varsXs, varsWorld, camera, image, writes, pos, remaining>>

\* Worker w stores the color it computed in the cell of its pixel.
Write(w) ==
    /\ returned = None
    /\ w \in DOMAIN workers
    /\ workers[w].pc = "write"
    /\ \E p \in {workers[w].pixel[1]} :
         \E written \in {write_pixel(image[1], p[1], p[2], workers[w].color[1])} :
            IF written.panic
            THEN /\ returned' = Some(written)
                 /\ UNCHANGED <<image, writes>>
            ELSE /\ image' = Some(written.val)
                 /\ writes' = Append(writes, coordinate_to_index(image[1], p[1], p[2]))
                 /\ UNCHANGED returned
    /\ workers' = [workers EXCEPT ![w] = Worker(workers[w].own, "idle", None, None)]
    /\ UNCHANGED <<varsXs, varsWorld, camera, pos, remaining>>

\* Every worker is done: the image is returned.
ParReturn ==
    /\ image # None
    /\ returned = None
    /\ workers # <<>>
    /\ \A w \in 1..NumWorkers : workers[w].pc = "idle" /\ workers[w].own = {}
    /\ returned' = Some(Ok(image[1]))
    /\ UNCHANGED <<varsXs, varsWorld, camera, image, writes, pos, remaining, workers>>

NextPar ==
    \/ ParBegin
    \/ \E w \in 1..NumWorkers : Compute(w)
    \/ \E w \in 1..NumWorkers : Write(w)
    \/ ParReturn

SpecPar == InitRender /\ [][NextPar]_vars

\* C9: with every worker writing only the cells of its own share and the
\* scene not modified, under every interleaving the grid at the end is the
\* grid of the sequential render (and the workers panic only where the
\* sequential render panics).
C9_WorkersGiveTheSequentialGrid ==
    returned # None =>
        LET sequential == render(camera[1], world)
        IN  /\ returned[1].panic => sequential.panic
            /\ ~returned[1].panic => returned[1] = sequential

\* A finished concurrent render of a 2x2 image whose cells were written in
\* an order no sequential loop takes, and whose pixels are not all of one
\* color.
C9_InterleavedWorkers ==
    /\ returned # None
    /\ ~returned[1].panic
    /\ workers # <<>>
    /\ Len(writes) = 4
    /\ writes = <<3, 0, 2, 1>>
    /\ \E i \in 1..4, j \in 1..4 : returned[1].val.pixels[i] # returned[1].val.pixels[j]

(***************************************************************************)
(* Matrices with and without an inverse, and the operations that need the  *)
(* inverse of a shape's or a camera's transform                            *)
(***************************************************************************)
Rows(m) == Values([i \in 1..4 |-> Values([j \in 1..4 |-> F(m[i][j])])])

\* The matrices of the tests of matrix.rs: two with an inverse, one without.
TestMatrices ==
    { Rows(<<<<6, 4, 4, 4>>, <<5, 5, 7, 6>>, <<4, -9, 3, -7>>, <<9, 1, 7, -6>>>>),
      Rows(<<<<-5, 2, 6, -8>>, <<1, -5, 1, 8>>, <<7, 7, -6, -7>>, <<1, -3, 7, 4>>>>),
      Rows(<<<<-4, 2, -2, -3>>, <<9, 6, 2, 6>>, <<0, -5, 1, -5>>, <<0, 0, 0, 0>>>>) }

\* Transforms with an inverse: the determinants 1, 8, 1/8 and -1.
RegularTransforms ==
    { identity, translation(F(0), F(0), F(5)), scaling(F(2), F(2), F(2)),
      scaling(Q(1, 2), Q(1, 2), Q(1, 2)), scaling(F(1), F(1), F(-1)) }

\* Transforms without one: a scaling that flattens an axis, one that
\* flattens all, the zero matrix, a matrix with two equal rows and one
\* with two equal columns.
SingularTransforms ==
    { scaling(F(0), F(1), F(1)), scaling(F(0), F(0), F(0)),
      Rows(<<<<0, 0, 0, 0>>, <<0, 0, 0, 0>>, <<0, 0, 0, 0>>, <<0, 0, 0, 0>>>>),
      Rows(<<<<1, 2, 3, 4>>, <<1, 2, 3, 4>>, <<0, 0, 1, 0>>, <<0, 0, 0, 1>>>>),
      Rows(<<<<1, 1, 0, 0>>, <<2, 2, 0, 0>>, <<0, 0, -1, 0>>, <<5, 5, 0, 1>>>>) }

Transforms == RegularTransforms \cup SingularTransforms

Matrices == TestMatrices \cup Transforms

MatrixRays ==
    { Ray(P(0, 0, -5), V(0, 0, 1)), Ray(P(0, 5, 0), V(0, -1, 0)),
      Ray(P(0, 0, 0), V(0, 1, 0)) }

\* Points on the z axis, on which the transforms keep a sphere's centre.
MatrixPoints == {P(0, 0, 1), P(0, 0, -3), P(0, 0, 7)}

InitMatrix == IdleXs /\ IdleWorld /\ IdleRender

\* m.invertible()
Invertible ==
    /\ answer = NoCall
    /\ \E m \in Matrices :
        answer' = [op |-> "invertible", m |-> m, val |-> invertible(m)]
    /\ UNCHANGED <<world, ray, varsXs, varsRender>>

\* m.inverse()
Inverse ==
    /\ answer = NoCall
    /\ \E m \in Matrices :
        answer' = [op |-> "inverse", m |-> m, val |-> inverse(m)]
    /\ UNCHANGED <<world, ray, varsXs, varsRender>>

\* shape.intersect(r), the shape's transform m
Intersect ==
    /\ answer = NoCall
    /\ \E m \in Transforms, kind \in {"sphere", "plane"}, r \in MatrixRays :
        /\ ray' = Some(r)
        /\ answer' = [op |-> "intersect", m |-> m, kind |-> kind,
                      val |-> intersect(Shape(kind, m, default_material), 1, r)]
    /\ UNCHANGED <<world, varsXs, varsRender>>

\* shape.normal_at(point), the shape's transform m
NormalAt ==
    /\ answer = NoCall
    /\ \E m \in Transforms, kind \in {"sphere", "plane"}, point \in MatrixPoints :
        answer' = [op |-> "normal_at", m |-> m, kind |-> kind, point |-> point,
                   val |-> normal_at(Shape(kind, m, default_material), point)]
    /\ UNCHANGED <<world, ray, varsXs, varsRender>>

\* camera.ray_for_pixel(px, py), the camera's transform m
RayForPixel ==
    /\ answer = NoCall
    /\ \E m \in Transforms, cam \in {Camera_new(1, 1, F(1)), Camera_new(3, 1, Q(9, 8))} :
         \E p \in Pixels(cam) :
            answer' = [op |-> "ray_for_pixel", m |-> m, pixel |-> p, hsize |-> cam.hsize,
                       val |-> ray_for_pixel([cam EXCEPT !.transform = m], p[1], p[2])]
    /\ UNCHANGED <<world, ray, varsXs, varsRender>>

NextMatrix == Invertible \/ Inverse \/ Intersect \/ NormalAt \/ RayForPixel

SpecMatrix == InitMatrix /\ [][NextMatrix]_vars

\* C10: inverse() of a matrix whose determinant is zero panics with "matrix
\* is not invertible" and returns no matrix; invertible() is true exactly
\* when the determinant is not zero; intersect, normal_at and ray_for_pixel
\* panic for a transform whose determinant is zero.
C10_ZeroDeterminantFails ==
    answer # NoCall =>
        LET zero == FEq(determinant(answer.m), F(0))
        IN  /\ answer.op = "invertible" => (answer.val <=> ~zero)
            /\ answer.op = "inverse" =>
                  /\ zero => answer.val = Panic("matrix is not invertible")
                  /\ ~zero => ~answer.val.panic
            /\ (answer.op \in {"intersect", "normal_at", "ray_for_pixel"} /\ zero) =>
                  answer.val = Panic("matrix is not invertible")

\* A ray sent at a sphere whose transform flattens the x axis.
C10_FlattenedSphereIntersected ==
    /\ answer.op = "intersect"
    /\ answer.kind = "sphere"
    /\ answer.m = scaling(F(0), F(1), F(1))
    /\ answer.val.panic

(***************************************************************************)
(* The inverse undone: M * inverse(M), inverse(inverse(M)) and             *)
(* (A * B) * inverse(B)                                                    *)
(***************************************************************************)
\* PartialEq for a matrix: every pair of elements is float_eq.
matrix_eq(a, b) ==
    \A i \in 1..Len(a) : \A j \in 1..Len(a) : float_eq(a[i][j], b[i][j])

\* The two matrices of the test multiplying_a_product_by_its_inverse.
ProductMatrices ==
    { Rows(<<<<3, -9, 7, 3>>, <<3, -8, 2, -9>>, <<-4, 4, 4, 1>>, <<-6, 5, -1, 1>>>>),
      Rows(<<<<8, 2, 2, 2>>, <<3, -1, 7, 0>>, <<7, 0, 5, 4>>, <<6, -2, 0, 5>>>>) }

InverseMatrices == Matrices \cup ProductMatrices

\* a * b.inverse(): the inverse is taken first and its panic ends the call.
times_inverse(a, b) ==
    [inv \in Any |-> IF inv.panic THEN inv ELSE Ok(MMul(a, inv.val))][inverse(b)]

\* m.inverse().inverse()
inverse_twice(m) ==
    [inv \in Any |-> IF inv.panic THEN inv ELSE inverse(inv.val)][inverse(m)]

InitInverse == IdleXs /\ IdleWorld /\ IdleRender

\* m * m.inverse()
TimesInverse ==
    /\ answer = NoCall
    /\ \E m \in InverseMatrices :
        answer' = [op |-> "times_inverse", m |-> m, val |-> times_inverse(m, m)]
    /\ UNCHANGED <<world, ray, varsXs, varsRender>>

\* m.inverse().inverse()
InverseTwice ==
    /\ answer = NoCall
    /\ \E m \in InverseMatrices :
        answer' = [op |-> "inverse_twice", m |-> m, val |-> inverse_twice(m)]
    /\ UNCHANGED <<world, ray, varsXs, varsRender>>

\* (a * b) * b.inverse()
ProductTimesInverse ==
    /\ answer = NoCall
    /\ \E a \in InverseMatrices, b \in InverseMatrices :
        answer' = [op |-> "product_times_inverse", a |-> a, m |-> b,
                   val |-> times_inverse(MMul(a, b), b)]
    /\ UNCHANGED <<world, ray, varsXs, varsRender>>

NextInverse == TimesInverse \/ InverseTwice \/ ProductTimesInverse

SpecInverse == InitInverse /\ [][NextInverse]_vars

\* Every pair of elements has the same value (0.0 and -0.0 are one value).
SameElements(a, b) == \A i \in 1..4 : \A j \in 1..4 : FEq(a[i][j], b[i][j])

\* C11: for an invertible M, M * inverse(M) is the identity and
\* inverse(inverse(M)) is M; for any A and invertible B, (A * B) * inverse(B)
\* is A.  Equal means equal under the matrices' == and in every element.
C11_InverseUndoes ==
    (answer # NoCall /\ invertible(answer.m)) =>
        /\ ~answer.val.panic
        /\ LET expected == CASE answer.op = "times_inverse" -> identity
                             [] answer.op = "inverse_twice" -> answer.m
                             [] answer.op = "product_times_inverse" -> answer.a
           IN  matrix_eq(answer.val.val, expected) /\ SameElements(answer.val.val, expected)

\* The product of the two matrices of the test, times the inverse of the
\* second.
C11_ProductOfTheTestUndone ==
    /\ answer.op = "product_times_inverse"
    /\ answer.a = Rows(<<<<3, -9, 7, 3>>, <<3, -8, 2, -9>>, <<-4, 4, 4, 1>>, <<-6, 5, -1, 1>>>>)
    /\ answer.m = Rows(<<<<8, 2, 2, 2>>, <<3, -1, 7, 0>>, <<7, 0, 5, 4>>, <<6, -2, 0, 5>>>>)
    /\ ~answer.val.panic

(***************************************************************************)
(* The fluent transform methods of Matrix4, chained                        *)
(***************************************************************************)
\* An angle r is kept as <<r.cos(), r.sin()>>, for the angles whose cosine
\* and sine are fractions.
cos(r) == r[1]

sin(r) == r[2]

rotation_x(r) ==
    [identity EXCEPT ![2][2] = cos(r), ![2][3] = FNeg(sin(r)),
                     ![3][2] = sin(r), ![3][3] = cos(r)]

rotation_y(r) ==
    [identity EXCEPT ![1][1] = cos(r), ![1][3] = sin(r),
                     ![3][1] = FNeg(sin(r)), ![3][3] = cos(r)]

rotation_z(r) ==
    [identity EXCEPT ![1][1] = cos(r), ![1][2] = FNeg(sin(r)),
                     ![2][1] = sin(r), ![2][2] = cos(r)]

shearing(xy, xz, yx, yz, zx, zy) ==
    [identity EXCEPT ![1][2] = xy, ![1][3] = xz, ![2][1] = yx,
                     ![2][3] = yz, ![3][1] = zx, ![3][2] = zy]

\* A translate that multiplies from the right.
translate_after(m, x, y, z) == MMul(m, translation(x, y, z))

translate(m, x, y, z) == MMul(translation(x, y, z), m)

scale(m, x, y, z) == MMul(scaling(x, y, z), m)

rotate_x(m, r) == MMul(rotation_x(r), m)

rotate_y(m, r) == MMul(rotation_y(r), m)

rotate_z(m, r) == MMul(rotation_z(r), m)

shear(m, xy, xz, yx, yz, zx, zy) == MMul(shearing(xy, xz, yx, yz, zx, zy), m)

\* The longest chain of fluent calls.
MaxChain == 3

\* A quarter turn and the angle of the 3-4-5 triangle.
Angles == {<<F(0), F(1)>>, <<Q(3, 5), Q(4, 5)>>}

Offsets == {<<F(10), F(5), F(7)>>}

Factors == {<<F(5), F(5), F(5)>>, <<F(1), F(-2), Q(1, 2)>>}

\* The receivers of a chain.
Receivers == {identity, translation(F(0), F(0), F(5)), scaling(F(2), F(3), F(4))}

InitFluent == IdleXs /\ IdleWorld /\ IdleRender

\* let transform = m
Receiver ==
    /\ answer = NoCall
    /\ \E m \in Receivers :
        answer' = [op |-> "fluent", m |-> m, steps |-> <<>>, val |-> m]
    /\ UNCHANGED <<world, ray, varsXs, varsRender>>

\* The chain so far is the receiver of one more call, whose transform is t.
Chained(t, result) ==
    /\ answer # NoCall
    /\ answer.op = "fluent"
    /\ Len(answer.steps) < MaxChain
    /\ answer' = [answer EXCEPT !.steps = Append(@, t), !.val = result]
    /\ UNCHANGED <<world, ray, varsXs, varsRender>>

Translate ==
    \E o \in Offsets :
        Chained(translation(o[1], o[2], o[3]), translate(answer.val, o[1], o[2], o[3]))

Scale ==
    \E f \in Factors :
        Chained(scaling(f[1], f[2], f[3]), scale(answer.val, f[1], f[2], f[3]))

RotateX == \E r \in Angles : Chained(rotation_x(r), rotate_x(answer.val, r))

RotateY == \E r \in Angles : Chained(rotation_y(r), rotate_y(answer.val, r))

RotateZ == \E r \in Angles : Chained(rotation_z(r), rotate_z(answer.val, r))

Shear ==
    Chained(shearing(F(1), F(0), F(0), F(2), F(0), F(-1)),
            shear(answer.val, F(1), F(0), F(0), F(2), F(0), F(-1)))

NextFluent == Receiver \/ Translate \/ Scale \/ RotateX \/ RotateY \/ RotateZ \/ Shear

SpecFluent == InitFluent /\ [][NextFluent]_vars

RECURSIVE ProductOf(_)
\* T_n * ... * T_2 * T_1 of the transforms <<T_1, ..., T_n>>, multiplied
\* from the left as the expression c * b * a is.
ProductOf(steps) ==
    IF Len(steps) = 1 THEN steps[1]
    ELSE MMul(steps[Len(steps)], ProductOf(SubSeq(steps, 1, Len(steps) - 1)))

RECURSIVE LeftProduct(_, _)
\* ((acc * s_1) * s_2) * ...
LeftProduct(acc, s) ==
    IF s = <<>> THEN acc ELSE LeftProduct(MMul(acc, Head(s)), Tail(s))

\* ((T_n * T_(n-1)) * ... * T_1) * m
ChainProduct(steps, m) ==
    LeftProduct(steps[Len(steps)],
                [i \in 1..Len(steps) |->
                    IF i = Len(steps) THEN m ELSE steps[Len(steps) - i]])

RECURSIVE OneByOne(_, _)
\* The point p taken through T_1, then T_2, ...
OneByOne(steps, p) ==
    IF steps = <<>> THEN p ELSE OneByOne(Tail(steps), MApply(Head(steps), p))

FluentPoints == {P(1, 0, 1), P(-3, 4, 5)}

SameTuple(a, b) == \A i \in 1..4 : FEq(a[i], b[i])

\* C12: a chain m.op1().op2().op3() is the product T3 * T2 * T1 * m, and
\* applied to a point it performs m first, then op1, then op2, then op3.
C12_FluentPremultiplies ==
    (answer # NoCall /\ answer.op = "fluent" /\ answer.steps # <<>>) =>
        /\ SameElements(answer.val, ChainProduct(answer.steps, answer.m))
        /\ \A p \in FluentPoints :
              SameTuple(MApply(answer.val, p),
                        OneByOne(answer.steps, MApply(answer.m, p)))

\* The chain of the test fluent_api_applies_transformation_in_sequence:
\* identity().rotate_x(PI / 2).scale(5, 5, 5).translate(10, 5, 7) takes the
\* point (1, 0, 1) to (15, 0, 7).
C12_ChainOfTheTest ==
    /\ answer.op = "fluent"
    /\ answer.m = identity
    /\ answer.steps = <<rotation_x(<<F(0), F(1)>>), scaling(F(5), F(5), F(5)),
                        translation(F(10), F(5), F(7))>>
    /\ SameTuple(MApply(answer.val, P(1, 0, 1)), P(15, 0, 7))

(***************************************************************************)
(* Tuple arithmetic on points and vectors, and translations of them        *)
(***************************************************************************)
is_point(a) == float_eq(a[4], F(1))

is_vector(a) == float_eq(a[4], F(0))

\* A cross product that keeps the receiver's w.
cross_keeping_w(a, b) ==
    <<FSub(FMul(a[2], b[3]), FMul(a[3], b[2])),
      FSub(FMul(a[3], b[1]), FMul(a[1], b[3])),
      FSub(FMul(a[1], b[2]), FMul(a[2], b[1])), a[4]>>

cross(a, b) ==
    new_vector(FSub(FMul(a[2], b[3]), FMul(a[3], b[2])),
               FSub(FMul(a[3], b[1]), FMul(a[1], b[3])),
               FSub(FMul(a[1], b[2]), FMul(a[2], b[1])))

\* Coordinates of the tests of tuple.rs and matrix.rs, and zeros of both
\* signs.
Coordinates ==
    { <<F(3), F(2), F(1)>>, <<F(5), F(6), F(7)>>, <<F(-3), F(4), F(5)>>,
      <<F(1), F(-2), F(3)>>, <<Q(1, 2), Q(-7, 2), F(0)>>,
      <<PosZero, NegZero, NegZero>> }

TuplePoints == {new_point(c[1], c[2], c[3]) : c \in Coordinates}

TupleVectors == {new_vector(c[1], c[2], c[3]) : c \in Coordinates}

Tuples == TuplePoints \cup TupleVectors

Scalars == {Q(7, 2), Q(1, 2), F(-2), PosZero, NegZero}

InitTuple == IdleXs /\ IdleWorld /\ IdleRender

\* a + b
Add ==
    /\ answer = NoCall
    /\ \E a \in Tuples, b \in Tuples :
        answer' = [op |-> "add", a |-> a, b |-> b, val |-> TAdd(a, b)]
    /\ UNCHANGED <<world, ray, varsXs, varsRender>>

\* a - b
Sub ==
    /\ answer = NoCall
    /\ \E a \in Tuples, b \in Tuples :
        answer' = [op |-> "sub", a |-> a, b |-> b, val |-> TSub(a, b)]
    /\ UNCHANGED <<world, ray, varsXs, varsRender>>

\* a * k
Mul ==
    /\ answer = NoCall
    /\ \E a \in Tuples, k \in Scalars :
        answer' = [op |-> "mul", a |-> a, b |-> k, val |-> TScale(a, k)]
    /\ UNCHANGED <<world, ray, varsXs, varsRender>>

\* a.cross(&b)
Cross ==
    /\ answer = NoCall
    /\ \E a \in Tuples, b \in Tuples :
        answer' = [op |-> "cross", a |-> a, b |-> b, val |-> cross(a, b)]
    /\ UNCHANGED <<world, ray, varsXs, varsRender>>

\* Matrix4::translation(o) * a
TranslationMul ==
    /\ answer = NoCall
    /\ \E o \in Coordinates, a \in Tuples :
        answer' = [op |-> "translation", a |-> a, b |-> o,
                   val |-> MApply(translation(o[1], o[2], o[3]), a)]
    /\ UNCHANGED <<world, ray, varsXs, varsRender>>

NextTuple == Add \/ Sub \/ Mul \/ Cross \/ TranslationMul

SpecTuple == InitTuple /\ [][NextTuple]_vars

\* C13: translation(a, b, c) * v is v for every vector v; for a point p it
\* adds (a, b, c) to the coordinates of p and keeps w = 1.
C13_TranslationMovesPointsOnly ==
    (answer # NoCall /\ answer.op = "translation") =>
        /\ answer.a \in TupleVectors =>
              tuple_eq(answer.val, answer.a) /\ SameTuple(answer.val, answer.a)
        /\ answer.a \in TuplePoints =>
              /\ \A i \in 1..3 : FEq(answer.val[i], FAdd(answer.a[i], answer.b[i]))
              /\ FEq(answer.val[4], F(1))

\* The translation and the vector of the test
\* translation_does_not_affect_vectors, with the offsets taken from another
\* tuple of the set.
C13_VectorTranslated ==
    /\ answer.op = "translation"
    /\ answer.a = new_vector(F(-3), F(4), F(5))
    /\ answer.b = <<F(5), F(6), F(7)>>
    /\ answer.val = answer.a

\* C14: point - point, vector - vector, a vector times a scalar and the
\* cross product have w = 0; point + vector and point - vector have w = 1.
C14_PointVectorConvention ==
    answer # NoCall =>
        LET pa == answer.a \in TuplePoints
            va == answer.a \in TupleVectors
            pb == answer.b \in TuplePoints
            vb == answer.b \in TupleVectors
            w0 == is_vector(answer.val) /\ FEq(answer.val[4], F(0))
            w1 == is_point(answer.val) /\ FEq(answer.val[4], F(1))
        IN  /\ (answer.op = "sub" /\ pa /\ pb) => w0
            /\ (answer.op = "sub" /\ va /\ vb) => w0
            /\ (answer.op = "mul" /\ va) => w0
            /\ answer.op = "cross" => w0
            /\ (answer.op = "add" /\ pa /\ vb) => w1
            /\ (answer.op = "sub" /\ pa /\ vb) => w1

\* The cross product of two points: the w of the operands is not used.
C14_CrossOfPoints ==
    /\ answer.op = "cross"
    /\ answer.a = new_point(F(3), F(2), F(1))
    /\ answer.b = new_point(F(5), F(6), F(7))
    /\ answer.val = new_vector(F(8), F(-16), F(8))

(***************************************************************************)
(* A ray against a sphere and against a plane                              *)
(***************************************************************************)
\* The origins of the tests of sphere.rs and the same on the far side.
SphereOrigins ==
    { P(0, 0, -5), P(0, 1, -5), P(0, 2, -5), P(0, 0, 0), P(0, 0, 5),
      P(0, -1, 5), P(0, -1, 0), P(0, 2, 0) }

\* Directions along z and y; one is not of unit length.
SphereDirections == {V(0, 0, 1), V(0, 0, -1), V(0, 0, 2), V(0, 1, 0)}

SphereTransforms ==
    {identity, translation(F(0), F(0), F(5)), translation(F(0), F(1), F(0)),
     translation(F(0), F(-1), F(-5))}

\* Rays for the plane y = 0: direction.y around EPSILON and around zero,
\* origin.y on both sides of the plane and on it.
PlaneDirections ==
    { new_vector(F(0), dy, F(1)) :
        dy \in { PosZero, NegZero, Q(1, 200), Q(-1, 200), EPSILON, FNeg(EPSILON),
                 F(1), F(-1), Q(1, 2), F(-4) } }

PlaneOrigins ==
    { new_point(F(0), oy, F(0)) : oy \in {PosZero, NegZero, F(1), F(-1), F(10), Q(-5, 2)} }
      \cup {new_point(F(3), F(1), F(-7))}

InitShapes == IdleXs /\ IdleWorld /\ IdleRender

\* sphere.intersect(ray), the sphere's transform m
SphereIntersect ==
    /\ answer = NoCall
    /\ \E m \in SphereTransforms, o \in SphereOrigins, d \in SphereDirections :
        /\ ray' = Some(Ray(o, d))
        /\ answer' = [op |-> "sphere_intersect", m |-> m,
                      val |-> intersect(Shape("sphere", m, default_material), 1, Ray(o, d))]
    /\ UNCHANGED <<world, varsXs, varsRender>>

\* plane.local_intersect(local_ray)
PlaneLocalIntersect ==
    /\ answer = NoCall
    /\ \E o \in PlaneOrigins, d \in PlaneDirections :
        /\ ray' = Some(Ray(o, d))
        /\ answer' = [op |-> "plane_local_intersect",
                      val |-> Ok(plane_local_intersect(1, Ray(o, d)))]
    /\ UNCHANGED <<world, varsXs, varsRender>>

NextShapes == SphereIntersect \/ PlaneLocalIntersect

SpecShapes == InitShapes /\ [][NextShapes]_vars

\* The squared distance of the ray's point at t from the sphere's centre,
\* in the sphere's own space.
FromCentre(m, r, t) ==
    LET local_ray == ray_transform(r, inverse(m).val)
        offset == TSub(position(local_ray, t), P(0, 0, 0))
    IN  Dot(offset, offset)

\* The closest the ray's line comes to the centre of the sphere, squared and
\* multiplied by |direction|^2: |O|^2 |D|^2 - (O . D)^2 in the sphere's space.
Clearance(m, r) ==
    LET local_ray == ray_transform(r, inverse(m).val)
        o == TSub(local_ray.origin, P(0, 0, 0))
        d == local_ray.direction
    IN  FSub(FMul(Dot(o, o), Dot(d, d)), FSq(Dot(o, d)))

\* The t of the intersections an answer holds.
Ts(val) == [i \in 1..Len(val.val.inner) |-> val.val.inner[i].t]

\* C15: a sphere gives no intersection when the ray's line passes the
\* centre at more than the radius, and otherwise exactly two, in ascending
\* order of t, both on the sphere, equal when the ray is tangent, negative
\* ones included; the five rays of the tests give {4,6}, {5,5}, none,
\* {-1,1} and {-6,-4}.
C15_SphereGivesNoneOrTwo ==
    (answer # NoCall /\ answer.op = "sphere_intersect") =>
        LET r == ray[1]
            t == Ts(answer.val)
            far == FLt(Dot(r.direction, r.direction), Clearance(answer.m, r))
            unit(o, expected) ==
                (answer.m = identity /\ r = Ray(o, V(0, 0, 1))) => t = expected
        IN  /\ ~answer.val.panic
            /\ Len(t) \in {0, 2}
            /\ Len(t) = 0 <=> far
            /\ Len(t) = 2 =>
                  /\ FLe(t[1], t[2])
                  /\ \A i \in 1..2 : FEq(FromCentre(answer.m, r, t[i]), F(1))
                  /\ FEq(t[1], t[2]) <=>
                        FEq(Dot(r.direction, r.direction), Clearance(answer.m, r))
            /\ unit(P(0, 0, -5), <<F(4), F(6)>>)
            /\ unit(P(0, 1, -5), <<F(5), F(5)>>)
            /\ unit(P(0, 2, -5), <<>>)
            /\ unit(P(0, 0, 0), <<F(-1), F(1)>>)
            /\ unit(P(0, 0, 5), <<F(-6), F(-4)>>)

\* A tangent ray behind which the sphere lies: two equal negative t.
C15_TangentBehindTheRay ==
    /\ answer.op = "sphere_intersect"
    /\ ~answer.val.panic
    /\ Len(Ts(answer.val)) = 2
    /\ Ts(answer.val)[1] = Ts(answer.val)[2]
    /\ FLt(Ts(answer.val)[1], F(0))

\* C16: Plane::local_intersect gives no intersection when |direction.y| is
\* below EPSILON, whatever the origin, and otherwise exactly one, at
\* t = -origin.y / direction.y, on the plane itself.
C16_PlaneGivesNoneOrOne ==
    (answer # NoCall /\ answer.op = "plane_local_intersect") =>
        LET r == ray[1]
            inner == answer.val.val.inner
        IN  IF FLt(FAbs(r.direction[2]), EPSILON)
            THEN inner = <<>>
            ELSE /\ Len(inner) = 1
                 /\ FEq(inner[1].t, FDiv(FNeg(r.origin[2]), r.direction[2]))
                 /\ FEq(FMul(inner[1].t, r.direction[2]), FNeg(r.origin[2]))
                 /\ inner[1].object = 1

\* A ray whose direction.y is exactly -EPSILON: not below EPSILON in
\* absolute value, so it meets the plane.
C16_SteepEnoughDownwards ==
    /\ answer.op = "plane_local_intersect"
    /\ ray[1].direction[2] = FNeg(EPSILON)
    /\ ray[1].origin[2] = F(10)
    /\ Len(answer.val.val.inner) = 1
    /\ answer.val.val.inner[1].t = F(1000)

(***************************************************************************)
(* prepare_computations on the intersections of a ray with a shape         *)
(***************************************************************************)
\* Spheres of radius 1, 2 and 1/2, and planes.
PrepareShapes ==
    { Shape("sphere", identity, default_material),
      Shape("sphere", translation(F(0), F(0), F(1)), default_material),
      Shape("sphere", scaling(F(2), F(2), F(2)), default_material),
      Shape("sphere", scaling(Q(1, 2), Q(1, 2), Q(1, 2)), default_material),
      Shape("plane", identity, default_material),
      Shape("plane", translation(F(0), F(-3), F(0)), default_material) }

\* Rays along the y and the z axis, from both sides and from the origin.
PrepareRays ==
    {Ray(P(0, y, 0), V(0, d, 0)) : y \in {-5, 0, 5}, d \in {-1, 1}}
      \cup {Ray(P(0, 0, z), V(0, 0, d)) : z \in {-5, 0, 5}, d \in {-1, 1}}

\* Spheres around the origin whose diameter is EPSILON, and half of it.
ThinSpheres ==
    { Shape("sphere", scaling(Q(1, 200), Q(1, 200), Q(1, 200)), default_material),
      Shape("sphere", scaling(Q(1, 400), Q(1, 400), Q(1, 400)), default_material) }

\* Every shape with every axis ray, the thin spheres with the rays from
\* inside them, and the unit sphere with a tangent ray and with rays that
\* meet it off the axes.
PrepareCases ==
    (PrepareShapes \X PrepareRays)
      \cup (ThinSpheres \X {r \in PrepareRays : r.origin = P(0, 0, 0)})
      \cup { <<Shape("sphere", identity, default_material), r>> :
               r \in { Ray(P(0, 1, -5), V(0, 0, 1)),
                       Ray(new_point(F(0), Q(3, 5), F(-5)), V(0, 0, 1)),
                       Ray(new_point(F(0), Q(3, 5), F(0)), V(0, 0, 1)) } }

InitPrepare == IdleXs /\ IdleWorld /\ IdleRender

\* i.prepare_computations(r) for an intersection i of shape.intersect(r)
PrepareComputations ==
    /\ answer = NoCall
    /\ \E case \in PrepareCases :
         LET found == intersect(case[1], 1, case[2]).val.inner
         IN  \E k \in 1..Len(found) :
                /\ ray' = Some(case[2])
                /\ answer' = [op |-> "prepare_computations", shape |-> case[1],
                              i |-> found[k],
                              val |-> prepare_computations(found[k], case[1], case[2])]
    /\ UNCHANGED <<world, varsXs, varsRender>>

NextPrepare == PrepareComputations

SpecPrepare == InitPrepare /\ [][NextPrepare]_vars

\* C17: inside is true and the normal negated exactly when the shape's
\* normal at the point, dotted with eyev = -ray.direction, is negative; the
\* returned normalv dotted with eyev is never negative; t and object are
\* those of the intersection.
C17_InsideFlipsTheNormal ==
    (answer # NoCall /\ answer.op = "prepare_computations") =>
        /\ ~answer.val.panic
        /\ LET comps == answer.val.val
               normal == normal_at(answer.shape, position(ray[1], answer.i.t)).val
               negative == FLt(Dot(normal, TNeg(ray[1].direction)), F(0))
           IN  /\ SameTuple(comps.eyev, TNeg(ray[1].direction))
               /\ comps.inside <=> negative
               /\ SameTuple(comps.normalv, IF negative THEN TNeg(normal) ELSE normal)
               /\ FLe(F(0), Dot(comps.normalv, comps.eyev))
               /\ comps.t = answer.i.t
               /\ comps.object = answer.i.object

\* A hit from inside the unit sphere, off the axes: the normal is flipped.
C17_InsideOffAxis ==
    /\ answer.op = "prepare_computations"
    /\ ray = Some(Ray(new_point(F(0), Q(3, 5), F(0)), V(0, 0, 1)))
    /\ answer.i.t = Q(4, 5)
    /\ answer.val.val.inside
    /\ answer.val.val.normalv = new_vector(F(0), Q(-3, 5), Q(-4, 5))

\* The place of a point of the world in the shape's own space: for a
\* sphere the squared distance from the centre minus 1, for a plane the
\* height above it.  Positive is outside (above), negative inside (below).
Outside(shape, point) ==
    LET local == MApply(inverse(shape.transform).val, point)
        offset == TSub(local, P(0, 0, 0))
    IN  IF shape.kind = "sphere" THEN FSub(Dot(offset, offset), F(1)) ELSE local[2]

\* C18 as stated: over_point is point + normalv * EPSILON, strictly
\* outside the shape for a hit from outside and strictly inside it for a
\* hit from inside.
C18_OverPointOnTheEyesSide ==
    (answer # NoCall /\ answer.op = "prepare_computations") =>
        LET comps == answer.val.val
        IN  /\ SameTuple(comps.over_point,
                         TAdd(comps.point, TScale(comps.normalv, EPSILON)))
            /\ ~comps.inside => FLt(F(0), Outside(answer.shape, comps.over_point))
            /\ comps.inside => FLt(Outside(answer.shape, comps.over_point), F(0))

\* How far the shape reaches behind the surface at a hit from inside, along
\* the normal: the diameter of a sphere scaled by s in every direction
\* (2 * s), and without end for a plane (a negative number stands for it).
Thickness(shape) ==
    IF shape.kind = "sphere" THEN FMul(F(2), shape.transform[1][1]) ELSE F(-1)

\* C18, amended: over_point is point + normalv * EPSILON with the flipped
\* normal, on the eye's side of the tangent plane at the point; it is
\* strictly outside the shape for a hit from outside, and for a hit from
\* inside it is strictly inside exactly when the shape is thicker than
\* EPSILON there (otherwise over_point has left the shape on its far side).
C18_OverPointOnTheEyesSideIfThick ==
    (answer # NoCall /\ answer.op = "prepare_computations") =>
        LET comps == answer.val.val
            thick == \/ FLt(Thickness(answer.shape), F(0))
                     \/ FLt(EPSILON, Thickness(answer.shape))
        IN  /\ SameTuple(comps.over_point,
                         TAdd(comps.point, TScale(comps.normalv, EPSILON)))
            /\ FLe(F(0), Dot(TSub(comps.over_point, comps.point), comps.eyev))
            /\ ~comps.inside => FLt(F(0), Outside(answer.shape, comps.over_point))
            /\ comps.inside =>
                  (FLt(Outside(answer.shape, comps.over_point), F(0)) <=> thick)

\* A hit from inside the sphere of radius 1/400: over_point is outside it.
C18_ThinSphereFromInside ==
    /\ answer.op = "prepare_computations"
    /\ answer.shape.transform = scaling(Q(1, 400), Q(1, 400), Q(1, 400))
    /\ answer.val.val.inside
    /\ FLt(F(0), Outside(answer.shape, answer.val.val.over_point))

(***************************************************************************)
(* Which shape an intersection is on: the shape itself, not its value      *)
(***************************************************************************)
\* An equality of intersections that looks at t only.
intersection_eq_by_t(lhs, rhs) == FEq(lhs.t, rhs.t)

\* PartialEq for Intersection: self.t == other.t and ptr::eq of the two
\* objects.  A shape's address is its place in the world's objects.
intersection_eq(lhs, rhs) == FEq(lhs.t, rhs.t) /\ lhs.object = rhs.object

\* The worlds of up to MaxObjects shapes, the same shape twice included.
InitIdentity ==
    /\ IdleXs /\ IdleRender
    /\ world \in {w \in Worlds : w.light = None}
    /\ ray = None /\ answer = NoCall

\* world.objects[k].intersect(r)
IntersectObject ==
    /\ answer = NoCall
    /\ \E k \in 1..Len(world.objects), r \in AxisRays \cup SideRays :
        /\ ray' = Some(r)
        /\ answer' = [op |-> "intersect", object |-> k,
                      val |-> intersect(world.objects[k], k, r)]
    /\ UNCHANGED <<world, varsXs, varsRender>>

\* xs = world.intersect_world(r)
IntersectAll ==
    /\ answer = NoCall
    /\ \E r \in AxisRays \cup SideRays :
        /\ ray' = Some(r)
        /\ answer' = [op |-> "intersect_world", val |-> intersect_world(world, r)]
    /\ UNCHANGED <<world, varsXs, varsRender>>

\* xs[i] == xs[j]
CompareTwo ==
    /\ answer.op = "intersect_world"
    /\ ~answer.val.panic
    /\ \E i \in 1..Len(answer.val.val.inner), j \in 1..Len(answer.val.val.inner) :
         LET lhs == answer.val.val.inner[i]
             rhs == answer.val.val.inner[j]
         IN  answer' = [op |-> "eq", lhs |-> lhs, rhs |-> rhs,
                        val |-> intersection_eq(lhs, rhs)]
    /\ UNCHANGED <<world, ray, varsXs, varsRender>>

NextIdentity == IntersectObject \/ IntersectAll \/ CompareTwo

SpecIdentity == InitIdentity /\ [][NextIdentity]_vars

\* C19: two intersections are equal only if they have the same t and are on
\* the very same shape; on two distinct shapes they are unequal even if the
\* shapes have the same transform and material and the t are the same; and
\* every intersection a shape's intersect returns is on that shape.
C19_IntersectionsAreOnOneShape ==
    /\ (answer # NoCall /\ answer.op = "eq") =>
          /\ answer.val <=>
                (FEq(answer.lhs.t, answer.rhs.t) /\ answer.lhs.object = answer.rhs.object)
          /\ answer.lhs.object # answer.rhs.object => ~answer.val
    /\ (answer # NoCall /\ answer.op = "intersect" /\ ~answer.val.panic) =>
          \A i \in 1..Len(answer.val.val.inner) :
              answer.val.val.inner[i].object = answer.object
    /\ (answer # NoCall /\ answer.op = "intersect_world" /\ ~answer.val.panic) =>
          \A i \in 1..Len(answer.val.val.inner) :
              LET x == answer.val.val.inner[i]
                  own == intersect(world.objects[x.object], x.object, ray[1]).val.inner
              IN  \E k \in 1..Len(own) : own[k] = x

\* Two intersections with the same t on two shapes of the world that have
\* the same transform and material: they are not equal.
C19_TwinShapesCompared ==
    /\ answer.op = "eq"
    /\ answer.lhs.t = answer.rhs.t
    /\ answer.lhs.object # answer.rhs.object
    /\ world.objects[answer.lhs.object] = world.objects[answer.rhs.object]
    /\ ~answer.val

(***************************************************************************)
(* The world through a sequence of queries and a render                    *)
(***************************************************************************)
\* The rays through the pixels of the camera.
PixelRays == {ray_for_pixel(camera[1], p[1], p[2]).val : p \in Pixels(camera[1])}

\* Points on those rays, nearer to the eye than any shape and beyond them.
FramePoints == {position(r, t) : r \in PixelRays, t \in {F(2), F(10)}}

InitFrame == InitRender

\* The result of the last call is dropped and the next call can be made.
NextCall ==
    /\ answer # NoCall
    /\ answer' = NoCall
    /\ ray' = None
    /\ UNCHANGED <<world, varsXs, varsRender>>

\* An is_shadowed that takes the light out of the world to read it.
FrameIsShadowedTakingTheLight ==
    /\ answer = NoCall
    /\ \E p \in FramePoints :
        /\ ray' = None
        /\ answer' = [op |-> "is_shadowed", point |-> p, val |-> is_shadowed(world, p)]
        /\ world' = [world EXCEPT !.light = None]
        /\ UNCHANGED <<varsXs, varsRender>>

\* world.intersect_world(r): &self
FrameIntersectWorld ==
    /\ answer = NoCall
    /\ \E r \in PixelRays :
        /\ ray' = Some(r)
        /\ answer' = [op |-> "intersect_world", val |-> intersect_world(world, r)]
        /\ UNCHANGED <<world, varsXs, varsRender>>

\* world.is_shadowed(p): &self
FrameIsShadowed ==
    /\ answer = NoCall
    /\ \E p \in FramePoints :
        /\ ray' = None
        /\ answer' = [op |-> "is_shadowed", point |-> p, val |-> is_shadowed(world, p)]
        /\ UNCHANGED <<world, varsXs, varsRender>>

\* world.color_at(r): &self
FrameColorAt ==
    /\ answer = NoCall
    /\ \E r \in PixelRays :
        /\ ray' = Some(r)
        /\ answer' = [op |-> "color_at", val |-> color_at(world, r)]
        /\ UNCHANGED <<world, varsXs, varsRender>>

\* world.shade_hit(comps): &self; comps prepared from the hit of r.
FrameShadeHit ==
    /\ answer = NoCall
    /\ \E r \in PixelRays :
         \E found \in {intersect_world(world, r)} :
            /\ ~found.panic
            /\ hit(found.val) # None
            /\ \E comps \in {prepare_computations(hit(found.val)[1],
                                 world.objects[hit(found.val)[1].object], r)} :
                 /\ ~comps.panic
                 /\ ray' = Some(r)
                 /\ answer' = [op |-> "shade_hit", comps |-> comps.val,
                               val |-> shade_hit(world, comps.val)]
                 /\ UNCHANGED <<world, varsXs, varsRender>>

\* The queries in any order and number, and one render of the world.
NextFrame ==
    \/ FrameIntersectWorld \/ FrameIsShadowed \/ FrameColorAt \/ FrameShadeHit
    \/ NextCall
    \/ RenderBegin \/ RenderPixel \/ RenderReturn

SpecFrame == InitFrame /\ [][NextFrame]_vars

\* C20: intersect_world, is_shadowed, shade_hit, color_at and render leave
\* the world's objects (each shape's transform and material) and its light
\* as they are, at every step of any sequence of these calls.
C20_WorldIsReadOnly == [][world' = world]_vars

\* A world of two shapes and a light that was rendered to the end and, the
\* render and other queries done, asked to shade a hit.
C20_QueriedAndRendered ==
    /\ Len(world.objects) = 2
    /\ world.light # None
    /\ returned # None
    /\ ~returned[1].panic
    /\ Len(writes) = 4
    /\ answer.op = "shade_hit"
    /\ ~answer.val.panic

MaxWrites == 2

CanvasSizes ==
    {<<0, 0>>, <<0, 2>>, <<1, 0>>, <<1, 1>>, <<2, 2>>, <<5, 3>>, <<10, 2>>}

CanvasColors ==
    { Color(Q(3, 2), F(0), F(0)), Color(F(0), Q(1, 2), F(0)),
      Color(Q(-1, 2), F(0), F(1)), Color(F(1), Q(4, 5), Q(3, 5)),
      Color(F(1), F(1), Q(1, 4)) }

\* The coordinates written: those of the tests, their neighbours, and the
\* sixth pixel of the first row.
CanvasCells == {<<0, 0>>, <<1, 0>>, <<0, 1>>, <<2, 1>>, <<4, 2>>, <<5, 0>>}

InitCanvas ==
    /\ IdleXs /\ IdleWorld
    /\ camera = None /\ writes = <<>> /\ pos = None
    /\ remaining = {} /\ workers = <<>> /\ returned = None
    /\ image \in {Some(Canvas_new(size[1], size[2])) : size \in CanvasSizes}

\* c.write_pixel(x, y, color); a panic ends the program.
WritePixel ==
    /\ answer = NoCall
    /\ Len(writes) < MaxWrites
    /\ \E cell \in CanvasCells, color \in CanvasColors :
        \E written \in {write_pixel(image[1], cell[1], cell[2], color)} :
            IF written.panic
            THEN /\ answer' = [op |-> "write_pixel", val |-> written]
                 /\ UNCHANGED <<image, writes>>
            ELSE /\ image' = Some(written.val)
                 /\ writes' = Append(writes, [fill |-> FALSE, x |-> cell[1],
                                              y |-> cell[2], color |-> color])
                 /\ UNCHANGED answer
    /\ UNCHANGED <<varsXs, world, ray, camera, pos, remaining, workers, returned>>

\* for pixel in c.pixels.iter_mut() { *pixel = color }
FillPixels ==
    /\ answer = NoCall
    /\ Len(writes) < MaxWrites
    /\ \E color \in CanvasColors :
        /\ image' = Some([image[1] EXCEPT !.pixels =
                            [i \in 1..Len(image[1].pixels) |-> color]])
        /\ writes' = Append(writes, [fill |-> TRUE, color |-> color])
    /\ UNCHANGED <<varsXs, varsWorld, camera, pos, remaining, workers, returned>>

\* c.to_ppm()
ToPpm ==
    /\ answer = NoCall
    /\ answer' = [op |-> "to_ppm", val |-> to_ppm(image[1])]
    /\ UNCHANGED <<varsXs, world, ray, varsRender>>

NextCanvas == WritePixel \/ FillPixels \/ ToPpm

SpecCanvas == InitCanvas /\ [][NextCanvas]_vars

\* The header of the file of a canvas: P3, the width and the height, 255.
Header(canvas) ==
    <<"P", "3", "\n">> \o to_string(canvas.width) \o <<" ">>
        \o to_string(canvas.height) \o <<"\n", "2", "5", "5", "\n">>

\* What follows the header in the bytes to_ppm returned.
Data(canvas, bytes) == SubSeq(bytes, Len(Header(canvas)) + 1, Len(bytes))

\* The color components of the first n pixels, as they are to be printed.
Components(canvas, n) ==
    [k \in 1..(3 * n) |->
        to_string(scale_component(canvas.pixels[((k - 1) \div 3) + 1][((k - 1) % 3) + 1]))]

RECURSIVE Joined(_)
\* The components one after the other, a space after each.
Joined(components) ==
    IF components = <<>> THEN <<>>
    ELSE Head(components) \o <<" ">> \o [rest \in Any |-> Joined(rest)][Tail(components)]

\* The lengths of the lines of data: the distances between a line's start
\* and the next newline, or the end where no newline follows.
LineLengths(data) ==
    LET ends == {i \in 1..Len(data) : data[i] = "\n"} \cup {Len(data) + 1}
        starts == {1} \cup {i + 1 : i \in ends}
    IN  {CHOOSE n \in 0..Len(data) : start + n \in ends /\ \A m \in 0..(n - 1) : start + m \notin ends :
            start \in {i \in starts : i <= Len(data)}}

\* C22: in what to_ppm returns, the header P3, width and height, 255 comes
\* first; after it no line is longer than 70 characters, the lines hold the
\* components of the pixels whole, in order and one separator apart (no
\* component is split by a newline), and the first component of every row
\* of the canvas follows a newline.
C22_PpmLinesShortAndWhole ==
    (answer.op = "to_ppm" /\ ~answer.val.panic) =>
        LET canvas == image[1]
            bytes == answer.val.val
            data == Data(canvas, bytes)
        IN  /\ SubSeq(bytes, 1, Len(Header(canvas))) = Header(canvas)
            /\ \A n \in LineLengths(data) : n <= 70
            /\ [i \in 1..Len(data) |-> IF data[i] = "\n" THEN " " ELSE data[i]]
                  = Joined(Components(canvas, Len(canvas.pixels)))
            /\ \A row \in 0..(canvas.height - 1) :
                  bytes[Len(Header(canvas))
                        + Len(Joined(Components(canvas, row * canvas.width)))] = "\n"

\* The canvas of the test of the long lines with one more write: the sixth
\* pixel of the first row ends on a component of two digits, and the first
\* line of the file is 70 characters long.
C22_LineOfSeventy ==
    /\ answer.op = "to_ppm"
    /\ ~answer.val.panic
    /\ image[1].width = 10
    /\ 70 \in LineLengths(Data(image[1], answer.val.val))
    /\ Cardinality({i \in 1..Len(answer.val.val) : answer.val.val[i] = "\n"}) = 7

\* C23: for every canvas, whatever its width and height, to_ppm returns a
\* sequence of bytes, and the last of them is a newline.
C23_PpmEndsWithNewline ==
    answer.op = "to_ppm" =>
        /\ ~answer.val.panic
        /\ answer.val.val # <<>>
        /\ answer.val.val[Len(answer.val.val)] = "\n"

\* The coordinates <<x, y>> of the canvas.
CellsOf(canvas) == (0..(canvas.width - 1)) \X (0..(canvas.height - 1))

\* The write e is a fill, or a write_pixel with x < width and y < height.
InRange(canvas, e) == e.fill \/ (e.x < canvas.width /\ e.y < canvas.height)

RECURSIVE LastWritten(_, _, _)
\* The color of the last write of ws to <<x, y>>, a fill being a write to
\* every pixel; black when there is none.
LastWritten(ws, x, y) ==
    IF ws = <<>> THEN black
    ELSE [e \in Any |->
            IF e.fill \/ (e.x = x /\ e.y = y) THEN e.color
            ELSE LastWritten(SubSeq(ws, 1, Len(ws) - 1), x, y)
         ][ws[Len(ws)]]

\* After in-range writes each pixel holds the color of the last write to
\* its own coordinates, and black when it was never written.
HoldsLastWritten ==
    (image # None /\ \A i \in 1..Len(writes) : InRange(image[1], writes[i])) =>
        \A cell \in CellsOf(image[1]) :
            pixel_at(image[1], cell[1], cell[2]) = LastWritten(writes, cell[1], cell[2])

\* A step that is a write_pixel(x, y, c) with x < width and y < height
\* leaves c at <<x, y>>, and every other pixel, the width and the height as
\* they were.
WritesOnePixel ==
    (Len(writes') = Len(writes) + 1 /\ ~writes'[Len(writes')].fill
        /\ InRange(image[1], writes'[Len(writes')])) =>
        LET e == writes'[Len(writes')]
        IN  /\ pixel_at(image'[1], e.x, e.y) = e.color
            /\ image'[1].width = image[1].width
            /\ image'[1].height = image[1].height
            /\ Len(image'[1].pixels) = Len(image[1].pixels)
            /\ \A cell \in CellsOf(image[1]) \ {<<e.x, e.y>>} :
                  pixel_at(image'[1], cell[1], cell[2]) = pixel_at(image[1], cell[1], cell[2])

\* C24: a new canvas has every pixel black; write_pixel(x, y, c) with
\* x < width and y < height makes pixel_at(x, y) return c and leaves every
\* other pixel, the width and the height unchanged; so after any sequence
\* of in-range writes each pixel holds the color of the last write to its
\* own coordinates.
C24_WritePixelChangesOnePixel == []HoldsLastWritten /\ [][WritesOnePixel]_vars

\* The 5x3 canvas of the test written twice at the same place: the pixel
\* holds the second color, its neighbours are black.
C24_WrittenTwice ==
    /\ image # None
    /\ image[1].width = 5 /\ image[1].height = 3
    /\ Len(writes) = 2
    /\ ~writes[1].fill /\ ~writes[2].fill
    /\ <<writes[1].x, writes[1].y>> = <<2, 1>>
    /\ <<writes[2].x, writes[2].y>> = <<2, 1>>
    /\ writes[1].color # writes[2].color
    /\ pixel_at(image[1], 2, 1) = writes[2].color
    /\ pixel_at(image[1], 1, 1) = black

(***************************************************************************)
(* An intersection at t = 0: the ray starts on the surface.  The calls are *)
(* those of SpecShapes, whose rays start on the plane y = 0 (origin.y +0.0 *)
(* and -0.0, direction.y of either sign) and on the unit sphere.           *)
(***************************************************************************)
\* C25: an intersection whose t is exactly zero counts as non-negative and
\* is the hit, however the zero was produced: by the sphere's roots or by
\* the plane's t = -origin.y / direction.y for a ray whose origin lies on
\* the plane, for either sign of direction.y.
C25_ZeroIsAHit ==
    (answer.op \in {"plane_local_intersect", "sphere_intersect"} /\ ~answer.val.panic) =>
        LET got == answer.val.val
        IN  (\E i \in 1..Len(got.inner) : FEq(got.inner[i].t, F(0))) =>
                /\ hit(got) # None
                /\ FEq(hit(got)[1].t, F(0))

(***************************************************************************)
(* shade_hit on the hit of a ray, the light on the ray's axis: in front of *)
(* the surface, behind it, and inside the sphere.                          *)
(***************************************************************************)
\* The lights on the axis a, at the origin and 10 away on either side.
ShadeLights(a) ==
    { PointLight(place, Color(F(1), F(1), F(1))) :
        place \in IF a = 2 THEN {P(0, -10, 0), P(0, 0, 0), P(0, 10, 0)}
                  ELSE {P(0, 0, -10), P(0, 0, 0), P(0, 0, 10)} }

\* The axis of a ray of PrepareRays: 2 for y, 3 for z.
AxisOf(r) == IF r.direction[2] # F(0) THEN 2 ELSE 3

\* Worlds and rays: every shape of PrepareShapes alone (the sphere moved
\* along z with the rays along z only, which meet it on the axis), the thin
\* spheres alone with the rays from inside them, and the two spheres of
\* World::default together.
ShadeCases ==
    { <<World(<<case[1]>>, Some(light)), case[2]>> :
        case \in {c \in PrepareShapes \X PrepareRays :
                    c[1].transform = translation(F(0), F(0), F(1)) => AxisOf(c[2]) = 3},
        light \in ShadeLights(2) \cup ShadeLights(3) }
      \cup { <<World(<<shape>>, Some(light)), r>> :
               shape \in ThinSpheres, r \in {Ray(P(0, 0, 0), V(0, 0, 1))},
               light \in ShadeLights(3) }
      \cup { <<World(<<Shape("sphere", identity, outer_material),
                       Shape("sphere", scaling(Q(1, 2), Q(1, 2), Q(1, 2)), default_material)>>,
                     Some(light)), r>> :
               r \in {Ray(P(0, 0, -5), V(0, 0, 1)), Ray(P(0, 0, 0), V(0, 0, 1))},
               light \in ShadeLights(3) }

InitShade ==
    /\ IdleXs /\ IdleRender /\ answer = NoCall
    /\ \E case \in {c \in ShadeCases : c[1].light[1] \in ShadeLights(AxisOf(c[2]))} :
          world = case[1] /\ ray = Some(case[2])

\* w.shade_hit(comps) for the comps prepared for the hit of the ray.
ShadeTheHit ==
    /\ answer = NoCall
    /\ \E found \in {intersect_world(world, ray[1])} :
        /\ ~found.panic
        /\ hit(found.val) # None
        /\ \E comps \in {prepare_computations(hit(found.val)[1],
                             world.objects[hit(found.val)[1].object], ray[1])} :
              /\ ~comps.panic
              /\ answer' = [op |-> "shade_hit", comps |-> comps.val,
                            val |-> shade_hit(world, comps.val)]
    /\ UNCHANGED <<world, ray, varsXs, varsRender>>

NextShade == ShadeTheHit

SpecShade == InitShade /\ [][NextShade]_vars

\* Nothing of the hit object lies between the point and the light: the
\* light is on the side of the tangent plane the normal of the hit points
\* to, and for a hit from inside the light is inside the shape as well.
DirectlyLit(w, comps) ==
    /\ FLt(F(0), Dot(comps.normalv, TSub(w.light[1].position, comps.point)))
    /\ comps.inside =>
          FLt(Outside(w.objects[comps.object], w.light[1].position), F(0))

\* The world of the hit object alone, under the same light.
Alone(w, comps) == World(<<w.objects[comps.object]>>, w.light)

\* What lighting returns for the hit with the given result of the shadow test.
Lit(w, comps, shadowed) ==
    lighting_shadow(w.objects[comps.object].material, w.light[1],
                    comps.point, comps.eyev, comps.normalv, shadowed)

\* C26 as stated: shade_hit makes the shadow test at comps.over_point and
\* gives lighting the hit object's material, the world's light, the hit's
\* eyev and normalv and the result of that test; a surface point lit
\* directly by the light is never reported as shadowed by the surface it
\* lies on.
C26_ShadowTestAtOverPoint ==
    (answer # NoCall /\ answer.op = "shade_hit") =>
        LET comps == answer.comps
        IN  /\ ~answer.val.panic
            /\ answer.val.val = Lit(world, comps, is_shadowed(world, comps.over_point).val)
            /\ DirectlyLit(world, comps) =>
                  /\ is_shadowed(Alone(world, comps), comps.over_point) = Ok(FALSE)
                  /\ Len(world.objects) = 1 => answer.val.val = Lit(world, comps, FALSE)

\* C26, amended: shade_hit makes the shadow test at comps.over_point and
\* gives lighting the hit object's material, the world's light, the hit's
\* eyev and normalv and the result of that test; a surface point lit
\* directly by the light is not reported as shadowed by the surface it lies
\* on when the hit is from outside, or from inside a shape thicker than
\* EPSILON.
C26_ShadowTestAtOverPointIfThick ==
    (answer # NoCall /\ answer.op = "shade_hit") =>
        LET comps == answer.comps
            shape == world.objects[comps.object]
            thick == \/ FLt(Thickness(shape), F(0))
                     \/ FLt(EPSILON, Thickness(shape))
        IN  /\ ~answer.val.panic
            /\ answer.val.val = Lit(world, comps, is_shadowed(world, comps.over_point).val)
            /\ (DirectlyLit(world, comps) /\ (comps.inside => thick)) =>
                  /\ is_shadowed(Alone(world, comps), comps.over_point) = Ok(FALSE)
                  /\ Len(world.objects) = 1 => answer.val.val = Lit(world, comps, FALSE)

\* The two spheres of World::default with the light and the eye at their
\* centre: the hit is on the inner sphere, from inside, the point faces the
\* light, and shade_hit returns what lighting gives out of shadow.
C26_LitFromInside ==
    /\ answer.op = "shade_hit"
    /\ Len(world.objects) = 2
    /\ world.light[1].position = P(0, 0, 0)
    /\ answer.comps.object = 2
    /\ answer.comps.inside
    /\ DirectlyLit(world, answer.comps)
    /\ is_shadowed(world, answer.comps.over_point) = Ok(FALSE)
    /\ answer.val.val = Lit(world, answer.comps, FALSE)
    /\ answer.val.val # Lit(world, answer.comps, TRUE)

(***************************************************************************)
(* Shape::intersect on moved and scaled shapes: the rays of the tests of   *)
(* shape.rs and sphere.rs, and rays whose direction is not a unit vector.  *)
(***************************************************************************)
ObjectTransforms ==
    { identity, scaling(F(2), F(2), F(2)), scaling(Q(1, 2), Q(1, 2), Q(1, 2)),
      scaling(F(1), F(1), F(4)), translation(F(5), F(0), F(0)),
      translation(F(0), F(0), F(5)), translation(F(0), F(-2), F(0)),
      MMul(scaling(F(2), F(2), F(2)), translation(F(0), F(0), F(1))) }

ObjectRays ==
    { Ray(P(0, 0, z), new_vector(F(0), F(0), d)) :
        z \in {-5, 0, 5}, d \in {F(1), F(-1), F(2), Q(1, 2)} }
      \cup { Ray(P(0, y, 0), new_vector(F(0), d, F(0))) :
               y \in {-5, 5}, d \in {F(1), F(-1), F(2)} }

InitObjectSpace == IdleXs /\ IdleWorld /\ IdleRender

\* s.intersect(r) with s.transform = m
ShapeIntersect ==
    /\ answer = NoCall
    /\ \E m \in ObjectTransforms, kind \in {"sphere", "plane"}, r \in ObjectRays :
        /\ ray' = Some(r)
        /\ answer' = [op |-> "shape_intersect", m |-> m, kind |-> kind,
                      val |-> intersect(Shape(kind, m, default_material), 1, r)]
    /\ UNCHANGED <<world, varsXs, varsRender>>

NextObjectSpace == ShapeIntersect

SpecObjectSpace == InitObjectSpace /\ [][NextObjectSpace]_vars

\* C27: intersect takes the world ray into object space by the inverse of
\* the shape's transform and leaves the length of the direction as it
\* comes out, so every t it returns is a parameter of the world ray: the
\* point of the world ray at t, taken into object space, lies on the
\* shape.  The ray from (0,0,-5) along (0,0,1) becomes origin (0,0,-2.5),
\* direction (0,0,0.5) for a scaling by 2 and meets the sphere at t = 3 and
\* 7; it does not meet the sphere moved by (5,0,0).
C27_IntersectInObjectSpace ==
    (answer # NoCall /\ answer.op = "shape_intersect") =>
        LET r == ray[1]
            shape == Shape(answer.kind, answer.m, default_material)
            t == Ts(answer.val)
            test == r = Ray(P(0, 0, -5), V(0, 0, 1)) /\ answer.kind = "sphere"
        IN  /\ ~answer.val.panic
            /\ \A i \in 1..Len(t) : FEq(Outside(shape, position(r, t[i])), F(0))
            /\ answer.kind = "sphere" =>
                  (t = <<>> <=>
                      FLt(Dot(ray_transform(r, inverse(answer.m).val).direction,
                              ray_transform(r, inverse(answer.m).val).direction),
                          Clearance(answer.m, r)))
            /\ (test /\ answer.m = scaling(F(2), F(2), F(2))) =>
                  /\ ray_transform(r, inverse(answer.m).val)
                        = Ray(new_point(F(0), F(0), Q(-5, 2)), new_vector(F(0), F(0), Q(1, 2)))
                  /\ t = <<F(3), F(7)>>
            /\ (test /\ answer.m = translation(F(5), F(0), F(0))) => t = <<>>

\* The scaled sphere of the tests met by a ray of twice the speed: the t
\* are half those of the test.
C27_ScaledSphereFasterRay ==
    /\ answer.op = "shape_intersect"
    /\ answer.kind = "sphere"
    /\ answer.m = scaling(F(2), F(2), F(2))
    /\ ray = Some(Ray(P(0, 0, -5), V(0, 0, 2)))
    /\ Ts(answer.val) = <<Q(3, 2), Q(7, 2)>>

(***************************************************************************)
(* render step by step: the calls color_at makes, one step for each call   *)
(* of intersect on an object.  answer holds the color_at in progress: the  *)
(* place it has reached (at), whether the pass over the objects is the     *)
(* shadow test's, the passes begun and the objects tested in this pass;    *)
(* list is the Vec intersect_world extends, xs and the_hit what it built.  *)
(***************************************************************************)
\* The worlds rendered, and one whose light is behind its sphere, on the
\* line from the eye through the sphere's centre: the shadow ray of a hit
\* on the sphere meets the sphere.
CallsWorlds ==
    RenderWorlds
      \cup { World(<<Shape("sphere", translation(F(-3), F(0), F(-4)), outer_material)>>,
                   Some(PointLight(P(-6, 0, -8), Color(F(1), F(1), F(1))))) }

InitCalls ==
    /\ IdleXs /\ ray = None /\ answer = NoCall
    /\ world \in CallsWorlds
    /\ camera \in {Some(cam) : cam \in Cameras}
    /\ image = None /\ writes = <<>> /\ pos = None
    /\ remaining = {} /\ workers = <<>> /\ returned = None

\* let ray = self.ray_for_pixel(x, y); world.color_at(ray) entered, and
\* intersect_world with it.
CallColorAt ==
    /\ pos # None
    /\ pos[1][2] < camera[1].vsize
    /\ answer = NoCall
    /\ \E r \in {ray_for_pixel(camera[1], pos[1][1], pos[1][2])} :
        IF r.panic
        THEN /\ returned' = Some(r)
             /\ pos' = None
             /\ UNCHANGED <<varsXs, ray, answer>>
        ELSE /\ ray' = Some(r.val)
             /\ answer' = [op |-> "color_at", at |-> "intersect_world", shadow |-> FALSE,
                           passes |-> 1, tested |-> 0, r |-> r.val,
                           comps |-> None, distance |-> None, color |-> None]
             /\ list' = <<>>
             /\ xs' = None
             /\ the_hit' = None
             /\ UNCHANGED <<pos, returned>>
    /\ UNCHANGED <<world, camera, image, writes, remaining, workers>>

\* A turn of the loop of intersect_world that does not move on to the next
\* object.
ExtendFromObjectStaying ==
    /\ answer.op = "color_at"
    /\ answer.at = "intersect_world"
    /\ answer.tested < Len(world.objects)
    /\ \E here \in {intersect(world.objects[answer.tested + 1], answer.tested + 1, answer.r)} :
        /\ ~here.panic
        /\ list' = list \o here.val.inner
    /\ UNCHANGED <<xs, the_hit, world, ray, answer, varsRender>>

\* One turn of the loop of intersect_world:
\* xs.extend_from_slice(object.intersect(r))
ExtendFromObject ==
    /\ answer.op = "color_at"
    /\ answer.at = "intersect_world"
    /\ answer.tested < Len(world.objects)
    /\ \E here \in {intersect(world.objects[answer.tested + 1], answer.tested + 1, answer.r)} :
        IF here.panic
        THEN /\ returned' = Some(here)
             /\ pos' = None
             /\ answer' = NoCall
             /\ UNCHANGED list
        ELSE /\ list' = list \o here.val.inner
             /\ answer' = [answer EXCEPT !.tested = @ + 1]
             /\ UNCHANGED <<pos, returned>>
    /\ UNCHANGED <<xs, the_hit, world, ray, camera, image, writes, remaining, workers>>

\* The end of intersect_world for the primary ray and the rest of color_at
\* down to the call of shade_hit: the sort, Intersections::new, hit(), and
\* black without a hit, prepare_computations with one.
PrimaryDone ==
    /\ answer.op = "color_at"
    /\ answer.at = "intersect_world"
    /\ ~answer.shadow
    /\ answer.tested = Len(world.objects)
    /\ \E built \in {Intersections_new(sort_by_t(list))} :
        /\ xs' = Some(built)
        /\ the_hit' = Some(hit(built))
        /\ IF hit(built) = None
           THEN /\ answer' = [answer EXCEPT !.at = "done", !.color = Some(black)]
                /\ UNCHANGED <<pos, returned>>
           ELSE \E comps \in {prepare_computations(hit(built)[1],
                                  world.objects[hit(built)[1].object], answer.r)} :
                   IF comps.panic
                   THEN /\ returned' = Some(comps)
                        /\ pos' = None
                        /\ answer' = NoCall
                   ELSE /\ answer' = [answer EXCEPT !.at = "shade_hit",
                                                    !.comps = Some(comps.val)]
                        /\ UNCHANGED <<pos, returned>>
    /\ UNCHANGED <<list, world, ray, camera, image, writes, remaining, workers>>

\* shade_hit entered and is_shadowed(comps.over_point) down to its call of
\* intersect_world; light.unwrap() panics without a light.
CallIsShadowed ==
    /\ answer.op = "color_at"
    /\ answer.at = "shade_hit"
    /\ IF world.light = None
       THEN /\ returned' = Some(Panic("called Option::unwrap() on a None value"))
            /\ pos' = None
            /\ answer' = NoCall
            /\ UNCHANGED list
       ELSE /\ \E v \in {TSub(world.light[1].position, answer.comps[1].over_point)} :
                answer' = [answer EXCEPT !.at = "intersect_world", !.shadow = TRUE,
                                         !.passes = @ + 1, !.tested = 0,
                                         !.distance = Some(magnitude(v)),
                                         !.r = Ray(answer.comps[1].over_point, normalize(v))]
            /\ list' = <<>>
            /\ UNCHANGED <<pos, returned>>
    /\ UNCHANGED <<xs, the_hit, world, ray, camera, image, writes, remaining, workers>>

\* The end of intersect_world for the shadow ray, the rest of is_shadowed
\* (h.map_or(false, |h| h.t < distance)) and the call of lighting, which
\* ends shade_hit and color_at.
ShadowDone ==
    /\ answer.op = "color_at"
    /\ answer.at = "intersect_world"
    /\ answer.shadow
    /\ answer.tested = Len(world.objects)
    /\ \E built \in {Intersections_new(sort_by_t(list))} :
        /\ xs' = Some(built)
        /\ the_hit' = Some(hit(built))
        /\ \E shadowed \in {IF hit(built) = None THEN FALSE
                            ELSE FLt(hit(built)[1].t, answer.distance[1])} :
              answer' = [answer EXCEPT !.at = "done",
                            !.color = Some(lighting_shadow(
                                world.objects[answer.comps[1].object].material,
                                world.light[1], answer.comps[1].point,
                                answer.comps[1].eyev, answer.comps[1].normalv,
                                shadowed))]
    /\ UNCHANGED <<list, world, ray, camera, image, writes, pos, remaining, workers, returned>>

\* image.write_pixel(x, y, color) and the step of the loops to the next x,
\* or to the next row.
WriteColor ==
    /\ answer.op = "color_at"
    /\ answer.at = "done"
    /\ \E written \in {write_pixel(image[1], pos[1][1], pos[1][2], answer.color[1])} :
        IF written.panic
        THEN /\ returned' = Some(written)
             /\ pos' = None
             /\ UNCHANGED <<image, writes>>
        ELSE /\ image' = Some(written.val)
             /\ writes' = Append(writes, coordinate_to_index(image[1], pos[1][1], pos[1][2]))
             /\ pos' = IF pos[1][1] + 1 < camera[1].hsize
                       THEN Some(<<pos[1][1] + 1, pos[1][2]>>)
                       ELSE Some(<<0, pos[1][2] + 1>>)
             /\ UNCHANGED returned
    /\ answer' = NoCall
    /\ UNCHANGED <<varsXs, world, ray, camera, remaining, workers>>

NextCalls ==
    \/ RenderBegin \/ CallColorAt \/ ExtendFromObject \/ PrimaryDone
    \/ CallIsShadowed \/ ShadowDone \/ WriteColor \/ RenderReturn

SpecCalls == InitCalls /\ [][NextCalls]_vars

\* The steps one color_at takes at most: the call, two passes over the
\* objects with their ends, the call of is_shadowed, and the write.
PerPixel == 2 * Len(world.objects) + 5

\* The steps the color_at in progress has left at most.
FrameLeft ==
    IF answer.op # "color_at" THEN 0
    ELSE IF answer.at = "done" THEN 1
    ELSE IF answer.at = "shade_hit" THEN Len(world.objects) + 3
    ELSE IF answer.shadow THEN Len(world.objects) - answer.tested + 2
    ELSE 2 * Len(world.objects) + 4 - answer.tested

\* The steps render has left at most.
StepsLeft ==
    IF returned # None THEN 0
    ELSE IF image = None THEN camera[1].hsize * camera[1].vsize * PerPixel + 2
    ELSE (camera[1].hsize * camera[1].vsize - Len(writes)
            - (IF answer.op = "color_at" THEN 1 ELSE 0)) * PerPixel
         + FrameLeft + 1

\* What the calls of a render have used so far.
CallsBounded ==
    /\ answer.op = "color_at" =>
          LET primary == hit(intersect_world(world, ray[1]).val)
          IN  /\ answer.passes \in {1, 2}
              /\ answer.tested <= Len(world.objects)
              /\ answer.shadow <=> answer.passes = 2
              /\ answer.passes = 2 => primary # None
              /\ answer.at = "done" =>
                    /\ answer.passes = IF primary = None THEN 1 ELSE 2
                    /\ Ok(answer.color[1]) = color_at(world, ray[1])
              /\ Len(writes) + 1 <= camera[1].hsize * camera[1].vsize
    /\ Len(writes) <= camera[1].hsize * camera[1].vsize
    /\ returned # None =>
          /\ returned[1] = render(camera[1], world)
          /\ ~returned[1].panic => Len(writes) = camera[1].hsize * camera[1].vsize
    /\ returned = None => ENABLED <<NextCalls>>_vars

\* C28: every color_at ends after at most two passes over the world's
\* objects, one intersect_world for the primary ray and, only when it has a
\* hit, exactly one more for the shadow ray, which starts no further
\* shading and no further ray; render ends after hsize * vsize calls of
\* color_at: every step takes one from a finite count of steps left, and
\* until render has returned there is a step to take that changes the state.
C28_TwoPassesPerColorAt == []CallsBounded /\ [][StepsLeft' < StepsLeft]_vars

\* The last pixel of the 2x2 image, whose ray hits a sphere, in a world of
\* two spheres: color_at is done after its second pass, and three pixels
\* are written.
C28_LastPixelAfterTwoPasses ==
    /\ answer.op = "color_at"
    /\ answer.at = "done"
    /\ answer.passes = 2
    /\ answer.tested = 2
    /\ Len(writes) = 3
    /\ pos = Some(<<1, 1>>)

(***************************************************************************)
(* submatrix, cofactor, determinant and inverse on the matrices of the     *)
(* tests of matrix.rs, 3x3 and 4x4, against the determinant as the sum     *)
(* over the permutations.                                                  *)
(***************************************************************************)
\* The matrix of floats with the given whole numbers.
Entries(m) == Values([i \in 1..Len(m) |-> Values([j \in 1..Len(m[i]) |-> F(m[i][j])])])

DeterminantMatrices ==
    { Entries(<<<<1, 5, 0>>, <<-3, 2, 7>>, <<0, 6, -3>>>>),
      Entries(<<<<3, 5, 0>>, <<2, -1, -7>>, <<6, -1, 5>>>>),
      Entries(<<<<1, 2, 6>>, <<-5, 8, -4>>, <<2, 6, 4>>>>),
      Entries(<<<<-6, 1, 1, 6>>, <<-8, 5, 8, 6>>, <<-1, 0, 8, 2>>, <<-7, 1, -1, 1>>>>),
      Entries(<<<<-2, -8, 3, 5>>, <<-3, 1, 7, 3>>, <<1, 2, -9, 6>>, <<-6, 7, 7, -9>>>>) }
      \cup TestMatrices

InitDeterminant == IdleXs /\ IdleWorld /\ IdleRender

\* m.submatrix(row, column)
Submatrix ==
    /\ answer = NoCall
    /\ \E m \in DeterminantMatrices :
         \E row \in 0..(Len(m) - 1), column \in 0..(Len(m) - 1) :
            answer' = [op |-> "submatrix", m |-> m, row |-> row, column |-> column,
                       val |-> submatrix(m, row, column)]
    /\ UNCHANGED <<world, ray, varsXs, varsRender>>

\* m.cofactor(row, column)
Cofactor ==
    /\ answer = NoCall
    /\ \E m \in DeterminantMatrices :
         \E row \in 0..(Len(m) - 1), column \in 0..(Len(m) - 1) :
            answer' = [op |-> "cofactor", m |-> m, row |-> row, column |-> column,
                       val |-> cofactor(m, row, column)]
    /\ UNCHANGED <<world, ray, varsXs, varsRender>>

\* m.determinant()
Determinant ==
    /\ answer = NoCall
    /\ \E m \in DeterminantMatrices :
        answer' = [op |-> "determinant", m |-> m, val |-> determinant(m)]
    /\ UNCHANGED <<world, ray, varsXs, varsRender>>

NextDeterminant == Submatrix \/ Cofactor \/ Determinant \/ Inverse

SpecDeterminant == InitDeterminant /\ [][NextDeterminant]_vars

\* 1 for an even permutation, -1 for an odd one.
Signature(p) ==
    IF Cardinality({pair \in (DOMAIN p) \X (DOMAIN p) :
                       pair[1] < pair[2] /\ p[pair[1]] > p[pair[2]]}) % 2 = 0
    THEN F(1) ELSE F(-1)

RECURSIVE ProductAlong(_, _, _)
\* m[1][p[1]] * ... * m[k][p[k]]
ProductAlong(m, p, k) ==
    IF k = 0 THEN F(1) ELSE FMul(ProductAlong(m, p, k - 1), m[k][p[k]])

RECURSIVE SumOver(_, _)
\* The sum of the signed products over the permutations ps.
SumOver(m, ps) ==
    IF ps = {} THEN F(0)
    ELSE LET p == CHOOSE q \in ps : TRUE
         IN  FAdd(FMul(Signature(p), ProductAlong(m, p, Len(m))), SumOver(m, ps \ {p}))

\* The determinant of mathematics.
Leibniz(m) == SumOver(m, Permutations(1..Len(m)))

\* C29: submatrix(r, c) is the matrix without row r and column c, the
\* others in their order; cofactor(r, c) is the determinant of that
\* submatrix, negated when r + c is odd; the determinant of a 3x3 and of a
\* 4x4 matrix is the expansion along row 0 and equals the determinant of
\* mathematics; inverse puts cofactor(r, c) / determinant at [c][r].
C29_DeterminantByCofactors ==
    answer # NoCall =>
        LET m == answer.m
            n == Len(m)
        IN  /\ answer.op = "submatrix" =>
                  /\ Len(answer.val) = n - 1
                  /\ \A i \in 1..(n - 1) :
                        /\ Len(answer.val[i]) = n - 1
                        /\ \A j \in 1..(n - 1) :
                              answer.val[i][j] = m[IF i <= answer.row THEN i ELSE i + 1]
                                                  [IF j <= answer.column THEN j ELSE j + 1]
            /\ answer.op = "cofactor" =>
                  FEq(answer.val,
                      IF (answer.row + answer.column) % 2 = 0
                      THEN Leibniz(submatrix(m, answer.row, answer.column))
                      ELSE FNeg(Leibniz(submatrix(m, answer.row, answer.column))))
            /\ answer.op = "determinant" =>
                  /\ FEq(answer.val, Leibniz(m))
                  /\ FEq(answer.val,
                         SumFrom(F(0), [i \in 1..n |-> FMul(m[1][i], cofactor(m, 0, i - 1))]))
            /\ (answer.op = "inverse" /\ ~answer.val.panic) =>
                  \A r \in 0..3, c \in 0..3 :
                      FEq(answer.val.val[c + 1][r + 1],
                          FDiv(cofactor(m, r, c), Leibniz(m)))

\* The 4x4 matrix of the test: the determinant is -4071.
C29_DeterminantOfTheTest ==
    /\ answer.op = "determinant"
    /\ answer.m = Entries(<<<<-2, -8, 3, 5>>, <<-3, 1, 7, 3>>, <<1, 2, -9, 6>>, <<-6, 7, 7, -9>>>>)
    /\ answer.val = F(-4071)
    /\ cofactor(answer.m, 0, 1) = F(447)

(***************************************************************************)
(* What an Intersections holds once it is built; the lists are those of    *)
(* SpecXs.                                                                 *)
(***************************************************************************)
\* C30: in every Intersections the elements are in non-decreasing order of
\* t, and the cached hit index is None or a valid index whose element has
\* t >= 0 while every element before it has t < 0; nothing changes an
\* Intersections once it is built, and hit() returns the element at the
\* cached index.
C30_IntersectionsSortedWithHitIndex ==
    /\ xs # None =>
          LET inner == xs[1].inner
              cached == xs[1].hit
          IN  /\ \A i \in 1..(Len(inner) - 1) : FLe(inner[i].t, inner[i + 1].t)
              /\ \/ cached = None
                 \/ /\ cached[1] \in 0..(Len(inner) - 1)
                    /\ FLe(F(0), inner[cached[1] + 1].t)
                    /\ \A i \in 1..cached[1] : FLt(inner[i].t, F(0))
              /\ the_hit # None =>
                    the_hit[1] = IF cached = None THEN None
                                 ELSE Some(inner[cached[1] + 1])

====
